---- MODULE Spec2Model ----
(***************************************************************************)
(* Sitemap extractor backend (src/backend/index.js): the import handler    *)
(* POST /api/extract-sitemap with its recursive resolver, the batched      *)
(* candidate filter, the duplicate-tolerant bulk inserts, and the          *)
(* per-sitemap quality batch POST /api/sitemaps/process-quality.           *)
(*                                                                         *)
(* Strings are tuples of one-character strings, so that includes() and     *)
(* trim() are computed on characters.  Sitemap URLs are natural numbers;   *)
(* the remote documents and pages are the environment: each is chosen      *)
(* when it is first fetched and stays the same afterwards.                 *)
(***************************************************************************)
EXTENDS Integers, Sequences, FiniteSets, TLC

\* ------------------------------------------------------------------ bounds

\* Most <loc> entries of one generated sitemap document.
MaxEntries == 2
\* Import requests served in one behaviour.
MaxImports == 2
\* process-quality requests served in one behaviour.
MaxQualityCalls == 1
\* Unchecked records of the small scan scenario (FewCount, below).
\* Sitemap fetches of one resolution of the quality-status backend.
MaxFetches == 5
\* Restore requests served in one behaviour.
MaxRestores == 1

\* const BATCH_SIZE = 10;
BATCH_SIZE == 10

Procs == 1 .. MaxImports

\* ------------------------------------------------------------- the inputs

\* Sitemap URLs a document can reference; 0 is the root the client submits.
SitemapIds == {0, 1, 2}
\* A <sitemap> entry without a <loc>.
NoSitemap == 0 - 1
\* req.body.sitemapUrl that is absent, and one that new URL() rejects.
MissingUrl == 0 - 2
MalformedUrl == 0 - 3

\* A <url> entry without a <loc>, or with an empty one: loc is falsy.
NoLoc == << >>
GenUrls == { <<"r", "a">>, <<"r", "b">>, <<"x">> }
Letters == <<"a", "b", "c", "d", "e", "f", "g", "h", "i", "j", "k", "l", "m", "n",
             "o", "p", "q", "r", "s", "t", "u", "v", "w", "x", "y", "z">>
\* The URLs of the large url set: one more than one batch.
BulkUrl(n) == <<"p", Letters[n]>>
BulkCount == BATCH_SIZE + 1
BulkUrls == { BulkUrl(n) : n \in 1 .. BulkCount }
\* The URLs of the two-leaf example: 3 and 5 entries, one shared.
ExUrl(n) == <<"e", Letters[n]>>
ExUrls == { ExUrl(n) : n \in 1 .. 7 }
\* const { limit = 10 } = req.body, and the limit handleRunScan sends
DefaultLimit == 10
\* The unchecked records of the scan scenarios: a few, and two full default
\* slices and a half.
ScanUrl(n) == <<"s", Letters[n]>>
FewCount == 3
ManyCount == 2 * DefaultLimit + 5
ScanUrls == { ScanUrl(n) : n \in 1 .. ManyCount }
AllUrls == GenUrls \cup BulkUrls \cup ExUrls \cup ScanUrls

Scenarios == {"resolve", "pipeline", "example", "bulk", "scan", "scanmany", "catalog",
              "status", "roundtrip", "restore", "concurrent", "requality",
              "copyall", "cyclic"}

SeqsUpTo(S, n) == UNION { [1 .. k -> S] : k \in 1 .. n }

Doc(kind, locs) == [kind |-> kind, locs |-> locs]
ErrorDoc == Doc("error", << >>)
OtherDoc == Doc("other", << >>)
Unfetched == Doc("unfetched", << >>)

\* The documents a sitemap URL may turn out to hold, per scenario.  In
\* "resolve" the root's index may list up to MaxEntries sitemaps and any
\* other index lists one.
DocChoices(sc, s) ==
  CASE sc = "resolve" ->
         { ErrorDoc, OtherDoc }
           \cup { Doc("sitemapindex", l) :
                    l \in SeqsUpTo(SitemapIds, IF s = 0 THEN MaxEntries ELSE 1) }
           \cup { Doc("sitemapindex", <<NoSitemap, 1>>), Doc("sitemapindex", <<NoSitemap>>) }
           \cup { Doc("urlset", l) : l \in SeqsUpTo({<<"r", "a">>, <<"r", "b">>}, MaxEntries) }
           \cup { Doc("urlset", <<NoLoc, <<"x">> >>), Doc("urlset", <<NoLoc>>) }
    [] sc \in {"pipeline", "catalog", "roundtrip", "restore", "concurrent", "requality",
                "copyall"} ->
         IF s = 0
           THEN { Doc("sitemapindex", <<1, 2>>) }
           ELSE { Doc("urlset", << <<"r", "b">>, <<"x">> >>),
                  Doc("urlset", << <<"x">>, <<"r", "a">> >>) }
    [] sc = "example" ->
         IF s = 0 THEN { Doc("sitemapindex", <<1, 2>>) }
         ELSE IF s = 1 THEN { Doc("urlset", [n \in 1 .. 3 |-> ExUrl(n)]) }
         ELSE { Doc("urlset", [n \in 1 .. 5 |-> ExUrl(n + 2)]) }
    [] sc \in {"scan", "status"} ->
         IF s = 0 THEN { Doc("urlset", [n \in 1 .. FewCount |-> ScanUrl(n)]) }
         ELSE { ErrorDoc }
    [] sc = "scanmany" ->
         IF s = 0 THEN { Doc("urlset", [n \in 1 .. ManyCount |-> ScanUrl(n)]) }
         ELSE { ErrorDoc }
    [] sc = "cyclic" ->
         IF s = 0
           THEN { Doc("sitemapindex", <<1, 2>>), Doc("sitemapindex", <<0>>),
                  Doc("sitemapindex", <<NoSitemap, 1>>) }
         ELSE IF s = 1
           THEN { Doc("sitemapindex", <<0>>), Doc("sitemapindex", <<2>>),
                  Doc("urlset", << <<"r", "a">>, <<"x">> >>) }
         ELSE { Doc("sitemapindex", <<1>>), Doc("urlset", << <<"x">>, <<"r", "b">> >>),
                ErrorDoc }
    [] OTHER ->
         IF s = 0 THEN { Doc("urlset", [n \in 1 .. BulkCount |-> BulkUrl(n)]) }
         ELSE { ErrorDoc }

\* ------------------------------------------------------------------ state

VARIABLES
  scenario,          \* which family of remote documents and requests is explored
  remote,            \* sitemap URL -> the document it holds, once fetched
  pc,                \* per import request: where the handler stands
  req,               \* per import request: req.body
  allFoundUrlMap,    \* Map loc -> sitemap that declared it, in insertion order
  allFoundSitemaps,  \* Set of sitemap URLs, in insertion order
  stack,             \* the pending calls of extractUrlsAndSitemaps, innermost first
  fetchLog,          \* the sitemap URLs fetched by this request, in order
  pages,             \* content URL -> the page it serves, once fetched
  urls,              \* the SitemapUrl collection, in insertion order
  files,             \* the SitemapFile collection, in insertion order
  candidates,        \* Array.from(allFoundUrlMap.keys())
  i,                 \* the batch loop's index into candidates (0-based)
  results,           \* the current batch's results, "pending" while a check runs
  inflight,          \* the URLs whose checkUrlQuality call has not returned yet
  scanned,           \* the URLs this request has called checkUrlQuality on
  newUrlsToStore,    \* the records of the kept candidates
  patternSkippedCount,
  qualitySkippedCount,
  newUrlsStoredCount,
  resp,              \* the response of the request, once sent
  pq,                \* the process-quality handler
  qualityCalls,      \* process-quality requests served so far
  sitemapUrls,       \* the SitemapUrl collection of the quality-status backend
  scan,              \* its scan-quality-batch handler
  client,            \* handleRunScan, the client loop over scan-quality-batch
  answer,            \* the last answer of a catalog or delete endpoint
  backup,            \* the backup handler and the stream it has written
  restore,           \* the restore handler
  copier,            \* copyAllPending, the client workflow over pending and mark-copied
  extract            \* extract-sitemap of the quality-status backend, resolving an index

resolverVars == <<allFoundUrlMap, allFoundSitemaps, stack, fetchLog>>
filterVars == <<candidates, i, results, inflight, scanned, newUrlsToStore,
                patternSkippedCount, qualitySkippedCount>>
storeVars == <<urls, files>>
scanVars == <<sitemapUrls, scan, client>>
transferVars == <<backup, restore>>
serviceVars == <<scanVars, answer, transferVars>>
vars == <<scenario, remote, pc, req, allFoundUrlMap, allFoundSitemaps, stack, fetchLog,
          pages, urls, files, candidates, i, results, inflight, scanned, newUrlsToStore,
          patternSkippedCount, qualitySkippedCount, newUrlsStoredCount, resp, pq,
          qualityCalls, sitemapUrls, scan, client, answer, backup, restore, copier,
          extract>>

\* ------------------------------------------------------ Map and Set of JS

\* Map.prototype.has
MapHas(m, k) == \E j \in 1 .. Len(m) : m[j].key = k
\* Map.prototype.get, for a key the map holds
MapGet(m, k) == (CHOOSE e \in { m[j] : j \in 1 .. Len(m) } : e.key = k).val
\* Map.prototype.set: a new key goes last, an old key keeps its place
MapSet(m, k, v) ==
  IF MapHas(m, k)
    THEN [j \in 1 .. Len(m) |-> IF m[j].key = k THEN [key |-> k, val |-> v] ELSE m[j]]
    ELSE Append(m, [key |-> k, val |-> v])
\* Array.from(map.keys())
MapKeys(m) == [j \in 1 .. Len(m) |-> m[j].key]
\* Set.prototype.has
SetHas(s, x) == \E j \in 1 .. Len(s) : s[j] = x
\* Set.prototype.add
SetAdd(s, x) == IF SetHas(s, x) THEN s ELSE Append(s, x)
Elems(s) == { s[j] : j \in 1 .. Len(s) }
Min(a, b) == IF a < b THEN a ELSE b
\* Array.prototype.slice(from, to), 0-based, to exclusive
Slice(s, from, to) == SubSeq(s, from + 1, Min(to, Len(s)))

\* ------------------------------------------------ extractUrlsAndSitemaps

\* if (loc && !extractedUrlMap.has(loc)) extractedUrlMap.set(loc, sitemapUrl)
RecordLocOverwriting(m, loc, sitemapUrl) ==
  IF loc # NoLoc THEN MapSet(m, loc, sitemapUrl) ELSE m
RecordLocAppending(m, loc, sitemapUrl) ==
  IF loc # NoLoc THEN Append(m, [key |-> loc, val |-> sitemapUrl]) ELSE m
RecordLoc(m, loc, sitemapUrl) ==
  IF loc # NoLoc /\ ~MapHas(m, loc) THEN MapSet(m, loc, sitemapUrl) ELSE m

\* for (const urlEntry of result.urlset.url) { ... }
RECURSIVE RecordUrlset(_, _, _, _)
RecordUrlset(m, locs, j, sitemapUrl) ==
  IF j > Len(locs) THEN m
  ELSE RecordUrlset(RecordLoc(m, locs[j], sitemapUrl), locs, j + 1, sitemapUrl)

\* if (nestedSitemapUrl) { if (!extractedSitemapsSet.has(nestedSitemapUrl)) ...
Descends(set, nested) == nested # NoSitemap /\ ~SetHas(set, nested)

\* allFoundSitemaps.add(sitemapUrl), before the resolver is called
SeedNothing(sitemapUrl) == << >>
SeedSitemaps(sitemapUrl) == SetAdd(<< >>, sitemapUrl)

Frame(url) == [url |-> url, locs |-> << >>, idx |-> 0]

\* catch (error) { console.error(...) }: the call returns, to its caller's
\* loop or to the handler.
AbortResolution(rest) == << >>
CatchAndReturn(rest) == rest

\* ------------------------------------------------------- checkUrlQuality

Num(n) == [nan |-> FALSE, v |-> n]
NaN == [nan |-> TRUE, v |-> 0]
\* A page: a fetch error, or HTML whose rating (in tenths) and review count
\* are what parseFloat and parseInt make of the two elements' texts.
ErrorPage == [kind |-> "error", rating |-> NaN, reviews |-> NaN]
Html(rating, reviews) == [kind |-> "html", rating |-> rating, reviews |-> reviews]
UnfetchedPage == [kind |-> "unfetched", rating |-> NaN, reviews |-> NaN]

\* The pages a content URL may turn out to serve, per scenario.
PageChoices(sc, u) ==
  IF sc = "pipeline"
    THEN { ErrorPage, Html(Num(45), Num(120)) }
    ELSE IF sc = "scan"
    THEN { ErrorPage, Html(Num(40), Num(50)), Html(Num(39), Num(50)), Html(Num(40), Num(49)),
           Html(NaN, NaN), Html(Num(45), NaN) }
    ELSE IF u[Len(u)] \in {"a", "c", "e", "g", "i", "k"}
           THEN { Html(Num(40), Num(50)) }
           ELSE { Html(Num(40), Num(49)) }

\* !isNaN(rating) && !isNaN(reviews) && rating >= 4.0 && reviews >= 50,
\* and false when fetchContent throws
checkUrlQuality(page) ==
  /\ page.kind = "html"
  /\ ~page.rating.nan
  /\ ~page.reviews.nan
  /\ page.rating.v >= 40
  /\ page.reviews.v >= 50

\* ------------------------------------------------------ the filter loop

IsSpace(c) == c = " "
\* String.prototype.trim
RECURSIVE TrimStart(_)
TrimStart(s) == IF s # << >> /\ IsSpace(Head(s)) THEN TrimStart(Tail(s)) ELSE s
RECURSIVE TrimEnd(_)
TrimEnd(s) ==
  IF s # << >> /\ IsSpace(s[Len(s)]) THEN TrimEnd(SubSeq(s, 1, Len(s) - 1)) ELSE s
Trim(s) == TrimEnd(TrimStart(s))
\* String.prototype.includes
Includes(s, part) ==
  \E j \in 0 .. Len(s) - Len(part) : SubSeq(s, j + 1, j + Len(part)) = part

\* filterPattern && filterPattern.trim() !== '' && !uniqueUrl.includes(filterPattern)
PatternSkips(filterPattern, uniqueUrl) ==
  /\ filterPattern # << >>
  /\ Trim(filterPattern) # << >>
  /\ ~Includes(uniqueUrl, filterPattern)

\* The part of batchPromises' callback that runs before its first await.
FirstResultScanningAll(r, uniqueUrl) ==
  IF r.enableQualityFilter THEN "pending"
  ELSE IF PatternSkips(r.filterPattern, uniqueUrl) THEN "pattern_skipped"
  ELSE "keep"
FirstResult(r, uniqueUrl) ==
  IF PatternSkips(r.filterPattern, uniqueUrl) THEN "pattern_skipped"
  ELSE IF r.enableQualityFilter THEN "pending"
  ELSE "keep"

\* The rest of the callback, once checkUrlQuality has answered.
\* (CheckedResultUncounted: a callback that returns a status the loop over
\* the results does not know.)
CheckedResultUncounted(meetsQuality) == IF meetsQuality THEN "keep" ELSE "failed"
CheckedResult(meetsQuality) == IF meetsQuality THEN "keep" ELSE "quality_skipped"

\* await Promise.all(batchPromises): every promise of the batch is settled.
AllSettled(res) == \A j \in 1 .. Len(res) : res[j] # "pending"

\* const batch = candidates.slice(i, i + BATCH_SIZE)
WholeRest(cands, from) == Slice(cands, from, Len(cands))
Batch(cands, from) == Slice(cands, from, from + BATCH_SIZE)

\* new URL(sitemapUrl).origin
Origin(sitemapUrl) == IF sitemapUrl = 2 THEN "https://b.example" ELSE "https://a.example"

UrlRecord(url, sourceDomain, parentSitemap) ==
  [url |-> url, sourceDomain |-> sourceDomain, parentSitemap |-> parentSitemap,
   copied |-> FALSE]

\* newUrlsToStore after for (const res of results) { if (res.status === 'keep') ...
RECURSIVE Kept(_, _, _, _, _, _)
Kept(acc, batch, res, j, map, domain) ==
  IF j > Len(batch) THEN acc
  ELSE Kept(IF res[j] = "keep"
              THEN Append(acc, UrlRecord(batch[j], domain, MapGet(map, batch[j])))
              ELSE acc,
            batch, res, j + 1, map, domain)
CountOf(res, status) == Cardinality({ j \in 1 .. Len(res) : res[j] = status })

\* ------------------------------------------------------------ insertMany

HasUrl(coll, url) == \E j \in 1 .. Len(coll) : coll[j].url = url

\* Model.insertMany(docs, { ordered: false }) against the unique index on
\* url: every document is tried, a duplicate is a write error (code 11000)
\* that leaves the others alone.
RECURSIVE InsertManyAborting(_, _)
InsertManyAborting(coll, docs) ==
  IF docs = << >> THEN [coll |-> coll, nInserted |-> 0, error |-> FALSE]
  ELSE IF HasUrl(coll, Head(docs).url)
         THEN [coll |-> coll, nInserted |-> 0, error |-> TRUE]
         ELSE LET r == InsertManyAborting(Append(coll, Head(docs)), Tail(docs))
              IN [r EXCEPT !.nInserted = @ + 1]
RECURSIVE InsertMany(_, _)
InsertMany(coll, docs) ==
  IF docs = << >> THEN [coll |-> coll, nInserted |-> 0, error |-> FALSE]
  ELSE IF HasUrl(coll, Head(docs).url)
         THEN [InsertMany(coll, Tail(docs)) EXCEPT !.error = TRUE]
         ELSE LET r == InsertMany(Append(coll, Head(docs)), Tail(docs))
              IN [r EXCEPT !.nInserted = @ + 1]

\* newUrlsStoredCount = insertResult.length, or bulkError.result.nInserted
\* when the bulk write reports duplicates.
StoredCountOfAttempted(docs, r) == Len(docs)
StoredCount(docs, r) == IF r.error THEN r.nInserted ELSE Len(docs)

\* Array.from(allFoundSitemaps).map(url => ({ url, sourceDomain: websiteDomain }))
FileRecords(set, domain) == [j \in 1 .. Len(set) |-> [url |-> set[j], sourceDomain |-> domain]]

\* ------------------------------------------------------------- responses

NoResponse ==
  [status |-> 0, newUrlsStored |-> 0, newSitemapsStored |-> 0, totalUrlsFound |-> 0,
   skipped |-> 0, patternSkipped |-> 0, qualitySkipped |-> 0]
ErrorResponse(status) == [NoResponse EXCEPT !.status = status]

\* if (allFoundUrlMap.size === 0 && allFoundSitemaps.size === 0) -> 404
NothingFound(map, set) == Len(map) = 0 /\ Len(set) = 0

\* ------------------------------------------------------------ requests

\* req.body of POST /api/extract-sitemap
ImportRequest(sitemapUrl, filterPattern, enableQualityFilter) ==
  [sitemapUrl |-> sitemapUrl, filterPattern |-> filterPattern,
   enableQualityFilter |-> enableQualityFilter]
ImportRequests(sc) ==
  CASE sc = "pipeline" ->
         { ImportRequest(0, f, q) : f \in { << >>, <<"r">>, <<" ">> }, q \in BOOLEAN }
           \cup { ImportRequest(MissingUrl, << >>, FALSE),
                  ImportRequest(MalformedUrl, << >>, FALSE) }
    [] sc = "bulk" -> { ImportRequest(0, << >>, q) : q \in BOOLEAN }
    [] sc = "concurrent" -> { ImportRequest(s, << >>, FALSE) : s \in SitemapIds }
    [] sc = "copyall" -> { ImportRequest(s, << >>, FALSE) : s \in {1, 2} }
    [] OTHER -> { ImportRequest(0, << >>, FALSE) }
\* Imports served per scenario: one of each generated document tree, two
\* with every pair of requests, MaxImports of the example.
ImportsIn(sc) ==
  CASE sc = "resolve" -> 1
    [] sc = "example" -> MaxImports
    [] sc \in {"scan", "scanmany", "status", "cyclic"} -> 0
    [] sc \in {"catalog", "roundtrip", "restore", "requality"} -> 1
    [] OTHER -> 2

\* req.body of POST /api/sitemaps/process-quality; limit 0 stands for a
\* missing limit as well (both are falsy)
QualityRequests(sc) ==
  CASE sc = "pipeline" ->
         { [parentSitemap |-> 1, limit |-> n] : n \in {1, 2} }
           \cup { [parentSitemap |-> MissingUrl, limit |-> 1], [parentSitemap |-> 1, limit |-> 0] }
    [] sc = "bulk" -> { [parentSitemap |-> 0, limit |-> BulkCount] }
    [] sc = "requality" -> { [parentSitemap |-> 1, limit |-> 1] }
    [] OTHER -> { }
\* process-quality requests served per scenario: one more where the call is
\* repeated.
QualityCallsIn(sc) == IF sc = "requality" THEN MaxQualityCalls + 1 ELSE MaxQualityCalls

\* if (!sitemapUrl) -> 400; new URL(sitemapUrl) throws -> 400
Rejected(sitemapUrl) == sitemapUrl \in {MissingUrl, MalformedUrl}

QualityIdle == pq.pc \in {"idle", "done"}
\* Two requests are served one after the other, or, in the scenario of
\* concurrent imports, the second arrives while the first is being served.
Overlapping(sc) == sc = "concurrent"
IdleBefore(p) ==
  \A q \in Procs : IF q < p THEN pc[q] = "done" \/ (Overlapping(scenario) /\ pc[q] # "idle")
                              ELSE pc[q] = "idle"

\* ---------------------------------------------- POST /api/extract-sitemap

StartImport(p) ==
  /\ pc[p] = "idle"
  /\ IdleBefore(p)
  /\ QualityIdle
  /\ p <= ImportsIn(scenario)
  /\ \E r \in ImportRequests(scenario) :
       /\ req' = [req EXCEPT ![p] = r]
       /\ IF Rejected(r.sitemapUrl)
            THEN /\ pc' = [pc EXCEPT ![p] = "done"]
                 /\ resp' = [resp EXCEPT ![p] = ErrorResponse(400)]
                 /\ UNCHANGED resolverVars
            ELSE /\ pc' = [pc EXCEPT ![p] = "fetch"]
                 /\ allFoundUrlMap' = [allFoundUrlMap EXCEPT ![p] = << >>]
                 /\ allFoundSitemaps' = [allFoundSitemaps EXCEPT ![p] = SeedSitemaps(r.sitemapUrl)]
                 /\ stack' = [stack EXCEPT ![p] = <<Frame(r.sitemapUrl)>>]
                 /\ fetchLog' = [fetchLog EXCEPT ![p] = << >>]
                 /\ UNCHANGED resp
  /\ UNCHANGED <<scenario, extract, copier, remote, pages, storeVars, filterVars, newUrlsStoredCount,
                 pq, qualityCalls>>
  /\ UNCHANGED serviceVars

ReturnTo(rest) == IF rest = << >> THEN "resolved" ELSE "iterate"

\* fetchContent and parseStringPromise of the innermost call complete.
FetchSitemap(p) ==
  /\ pc[p] = "fetch"
  /\ LET top == Head(stack[p])
         rest == Tail(stack[p])
     IN \E d \in (IF remote[top.url] = Unfetched
                    THEN DocChoices(scenario, top.url) ELSE {remote[top.url]}) :
          /\ remote' = [remote EXCEPT ![top.url] = d]
          /\ fetchLog' = [fetchLog EXCEPT ![p] = Append(@, top.url)]
          /\ CASE d.kind = "sitemapindex" ->
                    /\ stack' = [stack EXCEPT ![p] =
                                   <<[top EXCEPT !.locs = d.locs, !.idx = 1]>> \o rest]
                    /\ pc' = [pc EXCEPT ![p] = "iterate"]
                    /\ UNCHANGED allFoundUrlMap
               [] d.kind = "urlset" ->
                    /\ stack' = [stack EXCEPT ![p] = rest]
                    /\ pc' = [pc EXCEPT ![p] = ReturnTo(rest)]
                    /\ allFoundUrlMap' =
                         [allFoundUrlMap EXCEPT ![p] = RecordUrlset(@, d.locs, 1, top.url)]
               [] d.kind = "error" ->
                    /\ stack' = [stack EXCEPT ![p] = CatchAndReturn(rest)]
                    /\ pc' = [pc EXCEPT ![p] = ReturnTo(CatchAndReturn(rest))]
                    /\ UNCHANGED allFoundUrlMap
               [] OTHER ->
                    /\ stack' = [stack EXCEPT ![p] = rest]
                    /\ pc' = [pc EXCEPT ![p] = ReturnTo(rest)]
                    /\ UNCHANGED allFoundUrlMap
  /\ UNCHANGED <<scenario, extract, copier, req, allFoundSitemaps, pages, storeVars, filterVars,
                 newUrlsStoredCount, resp, pq, qualityCalls>>
  /\ UNCHANGED serviceVars

\* One iteration of for (const sitemapEntry of result.sitemapindex.sitemap),
\* or the end of the loop.
IterateIndex(p) ==
  /\ pc[p] = "iterate"
  /\ LET top == Head(stack[p])
         rest == Tail(stack[p])
     IN IF top.idx > Len(top.locs)
          THEN /\ stack' = [stack EXCEPT ![p] = rest]
               /\ pc' = [pc EXCEPT ![p] = ReturnTo(rest)]
               /\ UNCHANGED allFoundSitemaps
          ELSE LET nested == top.locs[top.idx]
                   next == [top EXCEPT !.idx = @ + 1]
               IN IF Descends(allFoundSitemaps[p], nested)
                    THEN /\ allFoundSitemaps' = [allFoundSitemaps EXCEPT ![p] = SetAdd(@, nested)]
                         /\ stack' = [stack EXCEPT ![p] = <<Frame(nested), next>> \o rest]
                         /\ pc' = [pc EXCEPT ![p] = "fetch"]
                    ELSE /\ stack' = [stack EXCEPT ![p] = <<next>> \o rest]
                         /\ UNCHANGED <<pc, allFoundSitemaps>>
  /\ UNCHANGED <<scenario, extract, copier, remote, req, allFoundUrlMap, fetchLog, pages, storeVars,
                 filterVars, newUrlsStoredCount, resp, pq, qualityCalls>>
  /\ UNCHANGED serviceVars

\* The resolver has returned: the nothing-found check, then the filter
\* loop's initialisation.
CheckFound(p) ==
  /\ pc[p] = "resolved"
  /\ IF NothingFound(allFoundUrlMap[p], allFoundSitemaps[p])
       THEN /\ pc' = [pc EXCEPT ![p] = "done"]
            /\ resp' = [resp EXCEPT ![p] = ErrorResponse(404)]
            /\ UNCHANGED filterVars
       ELSE /\ pc' = [pc EXCEPT ![p] = "batch"]
            /\ candidates' = [candidates EXCEPT ![p] = MapKeys(allFoundUrlMap[p])]
            /\ i' = [i EXCEPT ![p] = 0]
            /\ results' = [results EXCEPT ![p] = << >>]
            /\ inflight' = [inflight EXCEPT ![p] = {}]
            /\ scanned' = [scanned EXCEPT ![p] = {}]
            /\ newUrlsToStore' = [newUrlsToStore EXCEPT ![p] = << >>]
            /\ patternSkippedCount' = [patternSkippedCount EXCEPT ![p] = 0]
            /\ qualitySkippedCount' = [qualitySkippedCount EXCEPT ![p] = 0]
            /\ UNCHANGED resp
  /\ UNCHANGED <<scenario, extract, copier, remote, req, resolverVars, pages, storeVars,
                 newUrlsStoredCount, pq, qualityCalls>>
  /\ UNCHANGED serviceVars

\* for (let i = 0; i < candidates.length; i += BATCH_SIZE): the loop test,
\* and batch.map(async ...) up to each callback's first await.
StartBatch(p) ==
  /\ pc[p] = "batch"
  /\ IF i[p] < Len(candidates[p])
       THEN LET batch == Batch(candidates[p], i[p])
                first == [j \in 1 .. Len(batch) |-> FirstResult(req[p], batch[j])]
                started == { batch[j] : j \in { k \in 1 .. Len(batch) : first[k] = "pending" } }
            IN /\ results' = [results EXCEPT ![p] = first]
               /\ inflight' = [inflight EXCEPT ![p] = @ \cup started]
               /\ scanned' = [scanned EXCEPT ![p] = @ \cup started]
               /\ pc' = [pc EXCEPT ![p] = "await"]
       ELSE /\ pc' = [pc EXCEPT ![p] = "insertUrls"]
            /\ UNCHANGED <<results, inflight, scanned>>
  /\ UNCHANGED <<scenario, extract, copier, remote, req, resolverVars, pages, storeVars, candidates, i,
                 newUrlsToStore, patternSkippedCount, qualitySkippedCount,
                 newUrlsStoredCount, resp, pq, qualityCalls>>
  /\ UNCHANGED serviceVars

\* One checkUrlQuality call of the batch returns.
CompleteCheck(p) ==
  /\ \E u \in inflight[p] :
       \E page \in (IF pages[u] = UnfetchedPage THEN PageChoices(scenario, u) ELSE {pages[u]}) :
         LET batch == Batch(candidates[p], i[p])
         IN /\ pages' = [pages EXCEPT ![u] = page]
            /\ inflight' = [inflight EXCEPT ![p] = @ \ {u}]
            /\ results' = [results EXCEPT ![p] =
                 [j \in 1 .. Len(@) |->
                    IF j <= Len(batch) /\ batch[j] = u /\ @[j] = "pending"
                      THEN CheckedResult(checkUrlQuality(page)) ELSE @[j]]]
  /\ UNCHANGED <<scenario, extract, copier, remote, pc, req, resolverVars, storeVars, candidates, i, scanned,
                 newUrlsToStore, patternSkippedCount, qualitySkippedCount,
                 newUrlsStoredCount, resp, pq, qualityCalls>>
  /\ UNCHANGED serviceVars

\* Promise.all(batchPromises) resolves; the results are sorted into the
\* records to store and the two skip counters.
CollectBatch(p) ==
  /\ pc[p] = "await"
  /\ AllSettled(results[p])
  /\ LET batch == Batch(candidates[p], i[p])
     IN /\ newUrlsToStore' = [newUrlsToStore EXCEPT ![p] =
             Kept(@, batch, results[p], 1, allFoundUrlMap[p], Origin(req[p].sitemapUrl))]
        /\ patternSkippedCount' =
             [patternSkippedCount EXCEPT ![p] = @ + CountOf(results[p], "pattern_skipped")]
        /\ qualitySkippedCount' =
             [qualitySkippedCount EXCEPT ![p] = @ + CountOf(results[p], "quality_skipped")]
  /\ i' = [i EXCEPT ![p] = @ + BATCH_SIZE]
  /\ results' = [results EXCEPT ![p] = << >>]
  /\ pc' = [pc EXCEPT ![p] = "batch"]
  /\ UNCHANGED <<scenario, extract, copier, remote, req, resolverVars, pages, storeVars, candidates,
                 inflight, scanned, newUrlsStoredCount, resp, pq, qualityCalls>>
  /\ UNCHANGED serviceVars

\* SitemapUrl.insertMany(newUrlsToStore, { ordered: false })
InsertUrls(p) ==
  /\ pc[p] = "insertUrls"
  /\ IF Len(newUrlsToStore[p]) > 0
       THEN LET r == InsertMany(urls, newUrlsToStore[p])
            IN /\ urls' = r.coll
               /\ newUrlsStoredCount' =
                    [newUrlsStoredCount EXCEPT ![p] = StoredCount(newUrlsToStore[p], r)]
       ELSE /\ newUrlsStoredCount' = [newUrlsStoredCount EXCEPT ![p] = 0]
            /\ UNCHANGED urls
  /\ pc' = [pc EXCEPT ![p] = "insertFiles"]
  /\ UNCHANGED <<scenario, extract, copier, remote, req, resolverVars, pages, files, filterVars, resp, pq,
                 qualityCalls>>
  /\ UNCHANGED serviceVars

\* SitemapFile.insertMany(newSitemapsToStore, { ordered: false }), then
\* res.status(200).json({ ... })
InsertFiles(p) ==
  /\ pc[p] = "insertFiles"
  /\ LET newSitemapsToStore == FileRecords(allFoundSitemaps[p], Origin(req[p].sitemapUrl))
         r == InsertMany(files, newSitemapsToStore)
     IN /\ files' = r.coll
        /\ resp' = [resp EXCEPT ![p] =
             [status |-> 200,
              newUrlsStored |-> newUrlsStoredCount[p],
              newSitemapsStored |-> StoredCount(newSitemapsToStore, r),
              totalUrlsFound |-> Len(allFoundUrlMap[p]),
              skipped |-> patternSkippedCount[p] + qualitySkippedCount[p],
              patternSkipped |-> patternSkippedCount[p],
              qualitySkipped |-> qualitySkippedCount[p]]]
  /\ pc' = [pc EXCEPT ![p] = "done"]
  /\ UNCHANGED <<scenario, extract, copier, remote, req, resolverVars, pages, urls, filterVars,
                 newUrlsStoredCount, pq, qualityCalls>>
  /\ UNCHANGED serviceVars

\* ---------------------------------------- POST /api/sitemaps/process-quality

QualityIdleState ==
  [pc |-> "idle", parentSitemap |-> MissingUrl, limit |-> 0, candidates |-> << >>,
   isQuality |-> << >>, inflight |-> {}, status |-> 0, urls |-> << >>, processedCount |-> 0]

\* SitemapUrl.find({ parentSitemap, copied: false }).limit(parseInt(limit))
RECURSIVE Find(_, _, _)
Find(coll, parentSitemap, limit) ==
  IF coll = << >> \/ limit = 0 THEN << >>
  ELSE IF Head(coll).parentSitemap = parentSitemap /\ ~Head(coll).copied
         THEN <<Head(coll).url>> \o Find(Tail(coll), parentSitemap, limit - 1)
         ELSE Find(Tail(coll), parentSitemap, limit)

\* candidates.map(async (doc) => ...): the calls started before Promise.all
Started(cands) == Elems(cands)

\* SitemapUrl.updateMany({ url: { $in: allProcessedUrls } }, { $set: { copied: true } })
MarkCopied(coll, processed) ==
  [j \in 1 .. Len(coll) |->
     IF coll[j].url \in Elems(processed) THEN [coll[j] EXCEPT !.copied = TRUE] ELSE coll[j]]

\* results.filter(r => r.isQuality).map(r => r.url)
RECURSIVE Passing(_, _)
Passing(cands, isQuality) ==
  IF cands = << >> THEN << >>
  ELSE (IF Head(isQuality) = "pass" THEN <<Head(cands)>> ELSE << >>)
         \o Passing(Tail(cands), Tail(isQuality))

StartQuality ==
  /\ QualityIdle
  /\ \A p \in Procs : pc[p] \in {"idle", "done"}
  /\ qualityCalls < QualityCallsIn(scenario)
  /\ qualityCalls' = qualityCalls + 1
  /\ \E r \in QualityRequests(scenario) :
       IF r.parentSitemap = MissingUrl \/ r.limit = 0
         THEN pq' = [QualityIdleState EXCEPT !.pc = "done", !.status = 400,
                       !.parentSitemap = r.parentSitemap, !.limit = r.limit]
         ELSE LET found == Find(urls, r.parentSitemap, r.limit)
              IN pq' = IF found = << >>
                         THEN [QualityIdleState EXCEPT !.pc = "done", !.status = 200,
                                 !.parentSitemap = r.parentSitemap, !.limit = r.limit]
                         ELSE [QualityIdleState EXCEPT !.pc = "await",
                                 !.parentSitemap = r.parentSitemap, !.limit = r.limit,
                                 !.candidates = found,
                                 !.isQuality = [j \in 1 .. Len(found) |-> "pending"],
                                 !.inflight = Started(found)]
  /\ UNCHANGED <<scenario, extract, copier, remote, pc, req, resolverVars, pages, storeVars, filterVars,
                 newUrlsStoredCount, resp>>
  /\ UNCHANGED serviceVars

\* One checkUrlQuality call of the request returns.
CompleteQuality ==
  /\ pq.pc = "await"
  /\ \E u \in pq.inflight :
       \E page \in (IF pages[u] = UnfetchedPage THEN PageChoices(scenario, u) ELSE {pages[u]}) :
         /\ pages' = [pages EXCEPT ![u] = page]
         /\ pq' = [pq EXCEPT !.inflight = @ \ {u},
                             !.isQuality = [j \in 1 .. Len(@) |->
                                IF pq.candidates[j] = u
                                  THEN (IF checkUrlQuality(page) THEN "pass" ELSE "fail")
                                  ELSE @[j]]]
  /\ UNCHANGED <<scenario, extract, copier, remote, pc, req, resolverVars, storeVars, filterVars,
                 newUrlsStoredCount, resp, qualityCalls>>
  /\ UNCHANGED serviceVars

FinishQualityMarkingPassing ==
  /\ pq.pc = "await"
  /\ pq.inflight = {}
  /\ urls' = MarkCopied(urls, Passing(pq.candidates, pq.isQuality))
  /\ pq' = [pq EXCEPT !.pc = "done", !.status = 200,
                      !.urls = Passing(pq.candidates, pq.isQuality),
                      !.processedCount = Len(pq.candidates)]
  /\ UNCHANGED <<scenario, extract, copier, remote, pc, req, resolverVars, pages, files, filterVars,
                 newUrlsStoredCount, resp, qualityCalls>>
  /\ UNCHANGED serviceVars

\* Promise.all resolves: every processed URL is marked copied, the passing
\* ones are returned.
FinishQuality ==
  /\ pq.pc = "await"
  /\ pq.inflight = {}
  /\ urls' = MarkCopied(urls, pq.candidates)
  /\ pq' = [pq EXCEPT !.pc = "done", !.status = 200,
                      !.urls = Passing(pq.candidates, pq.isQuality),
                      !.processedCount = Len(pq.candidates)]
  /\ UNCHANGED <<scenario, extract, copier, remote, pc, req, resolverVars, pages, files, filterVars,
                 newUrlsStoredCount, resp, qualityCalls>>
  /\ UNCHANGED serviceVars

\* ================================================================
\* The quality-status backend (src/unnamed/part_014, lines 1-365): records
\* carry qualityStatus, rating and reviews; POST /api/extract-sitemap stores
\* unchecked records and POST /api/scan-quality-batch classifies them.

\* A field that was never set (undefined): not a number.
Unset == [nan |-> TRUE, v |-> 0 - 1]
\* A field of a JSON answer that is absent.
Undefined == 0 - 1

\* checkUrlQuality of the quality-status backend: { valid, rating, reviews },
\* with the values as parseFloat and parseInt returned them, and
\* { valid: false, rating: 0, reviews: 0 } when fetchContent throws.
checkUrlQuality014(page) ==
  IF page.kind = "html"
    THEN [valid |-> /\ ~page.rating.nan
                    /\ ~page.reviews.nan
                    /\ page.rating.v >= 40
                    /\ page.reviews.v >= 50,
          rating |-> page.rating,
          reviews |-> page.reviews]
    ELSE [valid |-> FALSE, rating |-> Num(0), reviews |-> Num(0)]

\* newUrlsToStore.push({ url, sourceDomain, copied: false, qualityStatus: 'unchecked' })
UncheckedRecord(url, sourceDomain) ==
  [url |-> url, sourceDomain |-> sourceDomain, copied |-> FALSE,
   qualityStatus |-> "unchecked", rating |-> Unset, reviews |-> Unset]

\* extractUrlsFromSitemap on a url set: if (loc && !extractedUrlsSet.has(loc))
RECURSIVE ExtractLocs(_, _)
ExtractLocs(set, locs) ==
  IF locs = << >> THEN set
  ELSE ExtractLocs(IF Head(locs) # NoLoc THEN SetAdd(set, Head(locs)) ELSE set, Tail(locs))

\* for (const uniqueUrl of allFoundUrls) { if (filterPattern && ...) continue; push }
RECURSIVE UncheckedRecords(_, _, _)
UncheckedRecords(found, filterPattern, domain) ==
  IF found = << >> THEN << >>
  ELSE (IF PatternSkips(filterPattern, Head(found))
          THEN << >> ELSE <<UncheckedRecord(Head(found), domain)>>)
         \o UncheckedRecords(Tail(found), filterPattern, domain)

\* The same find without its filter: SitemapUrl.find({}).limit(limit)
FindAnyStatus(coll, limit) ==
  [j \in 1 .. (IF Len(coll) < limit THEN Len(coll) ELSE limit) |-> coll[j].url]
\* SitemapUrl.find({ qualityStatus: 'unchecked' }).limit(limit), in natural order
RECURSIVE FindUnchecked(_, _)
FindUnchecked(coll, limit) ==
  IF coll = << >> \/ limit = 0 THEN << >>
  ELSE IF Head(coll).qualityStatus = "unchecked"
         THEN <<Head(coll).url>> \o FindUnchecked(Tail(coll), limit - 1)
         ELSE FindUnchecked(Tail(coll), limit)

\* SitemapUrl.countDocuments({ qualityStatus: 'unchecked' })
CountUnchecked(coll) ==
  Cardinality({ j \in 1 .. Len(coll) : coll[j].qualityStatus = "unchecked" })

\* The result a scanned document maps to: { id, status, rating, reviews }
PendingResult == [status |-> "pending", rating |-> Unset, reviews |-> Unset]
ScanResult(q) ==
  [status |-> IF q.valid THEN "approved" ELSE "rejected", rating |-> q.rating,
   reviews |-> q.reviews]

\* SitemapUrl.bulkWrite(operations): each $set is cast against the schema
\* (rating, reviews: Number) before anything is sent; NaN does not cast to
\* Number, and the call then rejects with nothing written.
CastFails(res) == \E j \in 1 .. Len(res) : res[j].rating.nan \/ res[j].reviews.nan
Updated(doc, ids, res) ==
  IF \E j \in 1 .. Len(ids) : ids[j] = doc.url
    THEN LET r == res[CHOOSE j \in 1 .. Len(ids) : ids[j] = doc.url]
         IN [doc EXCEPT !.qualityStatus = r.status, !.rating = r.rating, !.reviews = r.reviews]
    ELSE doc
BulkWriteUncast(coll, ids, res) ==
  [coll |-> [j \in 1 .. Len(coll) |-> Updated(coll[j], ids, res)], error |-> FALSE]
BulkWrite(coll, ids, res) ==
  IF CastFails(res) THEN [coll |-> coll, error |-> TRUE]
  ELSE [coll |-> [j \in 1 .. Len(coll) |-> Updated(coll[j], ids, res)], error |-> FALSE]

\* res.json({ processed, approved, rejected, remaining }), and the answers
\* that leave fields out
ScanAnswer(status, processed, approved, rejected, remaining) ==
  [status |-> status, processed |-> processed, approved |-> approved,
   rejected |-> rejected, remaining |-> remaining]
\* return res.json({ processed: 0, remaining: 0 })
NothingToScan == ScanAnswer(200, 0, Undefined, Undefined, 0)
\* res.status(500).json({ error: 'Scan failed' })
ScanFailed == ScanAnswer(500, Undefined, Undefined, Undefined, Undefined)
NoScanAnswer == ScanAnswer(0, Undefined, Undefined, Undefined, Undefined)

ScanIdleState ==
  [pc |-> "idle", limit |-> 0, byClient |-> FALSE, urlsToScan |-> << >>, results |-> << >>,
   inflight |-> {}, resp |-> NoScanAnswer]
ClientIdleState == [pc |-> "idle", totalApproved |-> 0, totalRejected |-> 0]

\* The limits of the scan requests sent without the client loop.
ScanLimits(sc) == IF sc = "scan" THEN {1, 2} ELSE IF sc = "status" THEN {1} ELSE { }
\* req.body of the quality-status backend's POST /api/extract-sitemap
ExtractRequests(sc) ==
  IF sc = "scan" THEN { [sitemapUrl |-> 0, filterPattern |-> f] : f \in { << >>, <<"a">> } }
  ELSE IF sc \in {"scanmany", "status"} THEN { [sitemapUrl |-> 0, filterPattern |-> << >>] }
  ELSE { }

\* An answer on its way to the client: the endpoint, the request, the status
\* and the JSON body.
Answer(op, request, status, body) == [op |-> op, req |-> request, status |-> status, body |-> body]
NoAnswer == Answer("none", << >>, 0, << >>)

ScanQuiet == scan.pc \in {"idle", "done"} /\ client.pc \in {"idle", "done"}

\* POST /api/extract-sitemap of the quality-status backend, for a root that
\* is a url set or that fails (the scan scenarios' documents).
ExtractSitemap014 ==
  /\ ScanQuiet
  /\ answer = NoAnswer
  /\ \E r \in ExtractRequests(scenario) :
       \E d \in (IF remote[r.sitemapUrl] = Unfetched
                   THEN DocChoices(scenario, r.sitemapUrl) ELSE {remote[r.sitemapUrl]}) :
         LET allFoundUrls == IF d.kind = "urlset" THEN ExtractLocs(<< >>, d.locs) ELSE << >>
             toStore == UncheckedRecords(allFoundUrls, r.filterPattern, Origin(r.sitemapUrl))
             ins == InsertMany(sitemapUrls, toStore)
         IN /\ remote' = [remote EXCEPT ![r.sitemapUrl] = d]
            /\ IF Len(allFoundUrls) = 0
                 THEN /\ answer' = Answer("extract", r, 404, << >>)
                      /\ UNCHANGED sitemapUrls
                 ELSE /\ sitemapUrls' = ins.coll
                      /\ answer' = Answer("extract", r, 200,
                                          [newUrlsStored |-> IF Len(toStore) > 0
                                                               THEN StoredCount(toStore, ins) ELSE 0,
                                           totalUrlsFound |-> Len(allFoundUrls),
                                           skipped |-> Len(allFoundUrls) - Len(toStore)])
  /\ UNCHANGED <<scenario, extract, copier, pc, req, resolverVars, pages, storeVars, filterVars,
                 newUrlsStoredCount, resp, pq, qualityCalls, scan, client, transferVars>>

\* handleRunScan up to its loop: if (stats.unchecked === 0) return
RunScan ==
  /\ ScanQuiet
  /\ scenario \in {"scan", "scanmany"}
  /\ CountUnchecked(sitemapUrls) # 0
  /\ client' = [ClientIdleState EXCEPT !.pc = "call"]
  /\ UNCHANGED <<scenario, extract, copier, remote, pc, req, resolverVars, pages, storeVars, filterVars,
                 newUrlsStoredCount, resp, pq, qualityCalls, sitemapUrls, scan, answer,
                 transferVars>>

\* POST /api/scan-quality-batch up to Promise.all: the find, the early
\* answer, and urlsToScan.map(async ...) up to each callback's await.
StartScan ==
  /\ scan.pc \in {"idle", "done"}
  /\ \E byClient \in BOOLEAN :
       \E limit \in (IF byClient THEN {DefaultLimit} ELSE ScanLimits(scenario)) :
         /\ IF byClient THEN client.pc = "call" ELSE client.pc \in {"idle", "done"}
         /\ client' = IF byClient THEN [client EXCEPT !.pc = "wait"] ELSE client
         /\ LET urlsToScan == FindUnchecked(sitemapUrls, limit)
            IN scan' = IF Len(urlsToScan) = 0
                         THEN [ScanIdleState EXCEPT !.pc = "done", !.limit = limit,
                                 !.byClient = byClient, !.resp = NothingToScan]
                         ELSE [ScanIdleState EXCEPT !.pc = "await", !.limit = limit,
                                 !.byClient = byClient, !.urlsToScan = urlsToScan,
                                 !.results = [j \in 1 .. Len(urlsToScan) |-> PendingResult],
                                 !.inflight = Elems(urlsToScan)]
  /\ UNCHANGED <<scenario, extract, copier, remote, pc, req, resolverVars, pages, storeVars, filterVars,
                 newUrlsStoredCount, resp, pq, qualityCalls, sitemapUrls, answer,
                 transferVars>>

\* One checkUrlQuality call of the scan returns.
CompleteScanCheck ==
  /\ scan.pc = "await"
  /\ \E u \in scan.inflight :
       \E page \in (IF pages[u] = UnfetchedPage THEN PageChoices(scenario, u) ELSE {pages[u]}) :
         /\ pages' = [pages EXCEPT ![u] = page]
         /\ scan' = [scan EXCEPT !.inflight = @ \ {u},
                                 !.results = [j \in 1 .. Len(@) |->
                                    IF scan.urlsToScan[j] = u
                                      THEN ScanResult(checkUrlQuality014(page)) ELSE @[j]]]
  /\ UNCHANGED <<scenario, extract, copier, remote, pc, req, resolverVars, storeVars, filterVars,
                 newUrlsStoredCount, resp, pq, qualityCalls, sitemapUrls, client, answer,
                 transferVars>>

\* results.filter(r => r.status === status).length
CountStatus(res, status) == Cardinality({ j \in 1 .. Len(res) : res[j].status = status })

\* Promise.all resolves: the bulk update, the remaining count and the
\* answer, or the catch when the bulk update rejects.
FinishScan ==
  /\ scan.pc = "await"
  /\ scan.inflight = {}
  /\ LET w == BulkWrite(sitemapUrls, scan.urlsToScan, scan.results)
     IN /\ sitemapUrls' = w.coll
        /\ scan' = [scan EXCEPT
             !.pc = "done",
             !.resp = IF w.error THEN ScanFailed
                      ELSE ScanAnswer(200, Len(scan.urlsToScan),
                                      CountStatus(scan.results, "approved"),
                                      CountStatus(scan.results, "rejected"),
                                      CountUnchecked(w.coll))]
  /\ UNCHANGED <<scenario, extract, copier, remote, pc, req, resolverVars, pages, storeVars, filterVars,
                 newUrlsStoredCount, resp, pq, qualityCalls, client, answer, transferVars>>

\* handleRunScan after await res.json(): the totals, and whether to go on.
ReceiveScan ==
  /\ client.pc = "wait"
  /\ scan.pc = "done"
  /\ LET data == scan.resp
         counted == data.processed > 0
         keepScanning == counted /\ data.remaining # 0
     IN client' = [pc |-> IF keepScanning THEN "call" ELSE "done",
                   totalApproved |-> client.totalApproved + (IF counted THEN data.approved ELSE 0),
                   totalRejected |-> client.totalRejected + (IF counted THEN data.rejected ELSE 0)]
  /\ scan' = [scan EXCEPT !.pc = "idle"]
  /\ UNCHANGED <<scenario, extract, copier, remote, pc, req, resolverVars, pages, storeVars, filterVars,
                 newUrlsStoredCount, resp, pq, qualityCalls, sitemapUrls, answer,
                 transferVars>>

\* ================================================================
\* The catalog endpoints: GET /api/urls, GET /api/urls/pending and
\* POST /api/mark-copied, of src/backend/index.js on urls, and of the
\* quality-status backend on sitemapUrls.

\* The client has taken the answer.
ReceiveAnswer ==
  /\ answer # NoAnswer
  /\ answer' = NoAnswer
  /\ UNCHANGED <<scenario, extract, copier, remote, pc, req, resolverVars, pages, storeVars, filterVars,
                 newUrlsStoredCount, resp, pq, qualityCalls, scanVars, transferVars>>

UpperLetters == <<"A", "B", "C", "D", "E", "F", "G", "H", "I", "J", "K", "L", "M", "N",
                  "O", "P", "Q", "R", "S", "T", "U", "V", "W", "X", "Y", "Z">>
\* The position of a character in the binary order of strings.
Rank(c) == CHOOSE n \in 1 .. Len(Letters) : Letters[n] = c
\* sort({ url: 1 }): the order of two strings
RECURSIVE StrLess(_, _)
StrLess(a, b) ==
  IF b = << >> THEN FALSE
  ELSE IF a = << >> THEN TRUE
  ELSE IF Head(a) = Head(b) THEN StrLess(Tail(a), Tail(b))
  ELSE Rank(Head(a)) < Rank(Head(b))
RECURSIVE SortByUrl(_)
SortByUrl(docs) ==
  IF docs = {} THEN << >>
  ELSE LET first == CHOOSE d \in docs : \A e \in docs \ {d} : StrLess(d.url, e.url)
       IN <<first>> \o SortByUrl(docs \ {first})

\* { $regex: search, $options: 'i' }, for a search without metacharacters
Lower(c) ==
  IF \E n \in 1 .. Len(UpperLetters) : UpperLetters[n] = c
    THEN Letters[CHOOSE n \in 1 .. Len(UpperLetters) : UpperLetters[n] = c]
    ELSE c
LowerAll(s) == [j \in 1 .. Len(s) |-> Lower(s[j])]
RegexMatches(url, search) == Includes(LowerAll(url), LowerAll(search))

\* The absent query parameters: '' for strings, MissingUrl for a sitemap URL,
\* 0 for a number.
NoDomain == ""
Domains == {NoDomain, "https://a.example", "https://b.example"}
Parents == {MissingUrl, 1, 2}
Searches == { << >>, <<"R">>, <<"x">> }

\* if (domain) query.sourceDomain = domain; if (parentSitemap) ...;
\* if (search) query.url = { $regex: search, $options: 'i' }
MatchesFilters(doc, q) ==
  /\ q.domain # NoDomain => doc.sourceDomain = q.domain
  /\ q.parentSitemap # MissingUrl => doc.parentSitemap = q.parentSitemap
  /\ q.search # << >> => RegexMatches(doc.url, q.search)
\* if (status === 'pending') query.copied = false;
\* else if (status === 'copied') query.copied = true
MatchesStatus(doc, status) ==
  CASE status = "pending" -> ~doc.copied
    [] status = "copied" -> doc.copied
    [] OTHER -> TRUE
Docs(coll) == { coll[j] : j \in 1 .. Len(coll) }
UrlList(docs) == [j \in 1 .. Len(docs) |-> docs[j].url]

\* find(query).sort({ url: 1 }).skip((pageNum - 1) * limitNum).limit(limitNum)
PageOf(sorted, pageNum, limitNum) ==
  SubSeq(sorted, (pageNum - 1) * limitNum + 1, Min(pageNum * limitNum, Len(sorted)))
\* Math.ceil(total / limitNum)
Ceil(total, limitNum) == (total + limitNum - 1) \div limitNum

\* GET /api/urls of src/backend/index.js
ListAnswer(coll, q) ==
  LET found == { d \in Docs(coll) : MatchesFilters(d, q) /\ MatchesStatus(d, q.status) }
      totalDb == Len(coll)
      pendingDb == Cardinality({ d \in Docs(coll) : ~d.copied })
  IN Answer("list", q, 200,
            [data |-> UrlList(PageOf(SortByUrl(found), q.page, q.limit)),
             pagination |-> [total |-> Cardinality(found), page |-> q.page, limit |-> q.limit,
                             pages |-> Ceil(Cardinality(found), q.limit)],
             stats |-> [totalUrls |-> totalDb, pending |-> pendingDb,
                        copied |-> totalDb - pendingDb]])

\* GET /api/urls of the older backend (src/unnamed/part_013): the domain
\* filter only, and the stats counted over the same query.
ListAnswer013(coll, q) ==
  LET found == { d \in Docs(coll) : q.domain # NoDomain => d.sourceDomain = q.domain }
      total == Cardinality(found)
      pending == Cardinality({ d \in found : ~d.copied })
  IN Answer("list013", q, 200,
            [data |-> UrlList(PageOf(SortByUrl(found), q.page, q.limit)),
             pagination |-> [total |-> total, page |-> q.page, limit |-> q.limit,
                             pages |-> Ceil(total, q.limit)],
             stats |-> [totalUrls |-> total, pending |-> pending, copied |-> total - pending]])

\* if (limit) { const limitNum = parseInt(limit); if (!isNaN(limitNum) && limitNum > 0) ...
Limited(sorted, limit) == IF limit > 0 THEN SubSeq(sorted, 1, Min(limit, Len(sorted))) ELSE sorted

\* GET /api/urls/pending of src/backend/index.js
PendingAnswerUnsorted(coll, q) ==
  LET found == SelectSeq(coll, LAMBDA d : ~d.copied /\ MatchesFilters(d, q))
      list == UrlList(Limited(found, q.limit))
  IN Answer("pending", q, 200, [urls |-> list, count |-> Len(list)])
PendingAnswer(coll, q) ==
  LET found == { d \in Docs(coll) : ~d.copied /\ MatchesFilters(d, q) }
      list == UrlList(Limited(SortByUrl(found), q.limit))
  IN Answer("pending", q, 200, [urls |-> list, count |-> Len(list)])

\* updateMany(query, { $set: { copied: true } })
SetCopied(coll, selected) ==
  [j \in 1 .. Len(coll) |-> IF coll[j] \in selected THEN [coll[j] EXCEPT !.copied = TRUE] ELSE coll[j]]
\* POST /api/mark-copied of src/backend/index.js: the records it selects
MarkSelectionUnfiltered(coll, b) ==
  IF b.allPending THEN { d \in Docs(coll) : ~d.copied }
  ELSE { d \in Docs(coll) : d.url \in Elems(b.urls) }
MarkSelection(coll, b) ==
  IF b.allPending THEN { d \in Docs(coll) : ~d.copied /\ MatchesFilters(d, b) }
  ELSE { d \in Docs(coll) : d.url \in Elems(b.urls) }
\* A body with neither allPending nor a urls array.
NoArray == << <<"?">> >>
MarkValid(b) == b.allPending \/ b.urls # NoArray

ListQueries(sc) ==
  IF sc = "catalog"
    THEN { [domain |-> d, parentSitemap |-> s, status |-> st, search |-> se, page |-> pg,
            limit |-> l] :
             d \in Domains, s \in Parents, st \in {"all", "pending", "copied"},
             se \in Searches, pg \in {1, 2}, l \in {1, 2} }
    ELSE { }
PendingQueries(sc) ==
  IF sc = "catalog"
    THEN { [domain |-> d, parentSitemap |-> s, search |-> se, limit |-> l] :
             d \in Domains, s \in Parents, se \in Searches, l \in {0, 1} }
    ELSE { }
MarkBodies(sc) ==
  IF sc = "catalog"
    THEN { [allPending |-> TRUE, urls |-> NoArray, domain |-> d, parentSitemap |-> s,
            search |-> se] : d \in Domains, s \in Parents, se \in Searches }
         \cup { [allPending |-> FALSE, urls |-> l, domain |-> NoDomain,
                 parentSitemap |-> MissingUrl, search |-> << >>] :
                  l \in { NoArray, << >>, << <<"x">> >>, << <<"r", "a">>, <<"x">> >> } }
    ELSE { }

\* No import and no quality batch is in progress, and no answer is under way.
CatalogQuiet ==
  /\ \A p \in Procs : pc[p] \in {"idle", "done"}
  /\ QualityIdle
  /\ answer = NoAnswer

GetUrls ==
  /\ CatalogQuiet
  /\ \E q \in ListQueries(scenario) : answer' = ListAnswer(urls, q)
  /\ UNCHANGED <<scenario, extract, copier, remote, pc, req, resolverVars, pages, storeVars, filterVars,
                 newUrlsStoredCount, resp, pq, qualityCalls, scanVars, transferVars>>

GetUrls013 ==
  /\ CatalogQuiet
  /\ \E q \in ListQueries(scenario) :
       /\ q.parentSitemap = MissingUrl /\ q.search = << >> /\ q.status = "all"
       /\ answer' = ListAnswer013(urls, q)
  /\ UNCHANGED <<scenario, extract, copier, remote, pc, req, resolverVars, pages, storeVars, filterVars,
                 newUrlsStoredCount, resp, pq, qualityCalls, scanVars, transferVars>>

GetPendingUrls ==
  /\ CatalogQuiet
  /\ \E q \in PendingQueries(scenario) : answer' = PendingAnswer(urls, q)
  /\ UNCHANGED <<scenario, extract, copier, remote, pc, req, resolverVars, pages, storeVars, filterVars,
                 newUrlsStoredCount, resp, pq, qualityCalls, scanVars, transferVars>>

PostMarkCopied ==
  /\ CatalogQuiet
  /\ \E b \in MarkBodies(scenario) :
       IF MarkValid(b)
         THEN /\ urls' = SetCopied(urls, MarkSelection(urls, b))
              /\ answer' = Answer("mark", b, 200, << >>)
         ELSE /\ answer' = Answer("mark", b, 400, << >>)
              /\ UNCHANGED urls
  /\ UNCHANGED <<scenario, extract, copier, remote, pc, req, resolverVars, pages, files, filterVars,
                 newUrlsStoredCount, resp, pq, qualityCalls, scanVars, transferVars>>

\* ---- the same endpoints of the quality-status backend (src/unnamed/part_014)

\* if (domain) query.sourceDomain = domain;
\* if (search) query.url = { $regex: search, $options: 'i' }
MatchesFilters014(doc, q) ==
  /\ q.domain # NoDomain => doc.sourceDomain = q.domain
  /\ q.search # << >> => RegexMatches(doc.url, q.search)
\* The view filters: if (status === 'unchecked') ... else if (status === 'pending') ...
MatchesStatus014(doc, status) ==
  CASE status = "unchecked" -> doc.qualityStatus = "unchecked"
    [] status = "pending" -> doc.qualityStatus = "approved" /\ ~doc.copied
    [] status = "rejected" -> doc.qualityStatus = "rejected"
    [] status = "copied" -> doc.copied
    [] OTHER -> TRUE

\* GET /api/urls
ListAnswer014(coll, q) ==
  LET found == { d \in Docs(coll) : MatchesFilters014(d, q) /\ MatchesStatus014(d, q.status) }
  IN Answer("list014", q, 200,
            [data |-> UrlList(PageOf(SortByUrl(found), q.page, q.limit)),
             pagination |-> [total |-> Cardinality(found), page |-> q.page, limit |-> q.limit,
                             pages |-> Ceil(Cardinality(found), q.limit)],
             stats |-> [totalUrls |-> Len(coll),
                        unchecked |-> CountUnchecked(coll),
                        pending |-> Cardinality({ d \in Docs(coll) :
                                                    d.qualityStatus = "approved" /\ ~d.copied }),
                        rejected |-> Cardinality({ d \in Docs(coll) :
                                                     d.qualityStatus = "rejected" }),
                        copied |-> Cardinality({ d \in Docs(coll) : d.copied })]])

\* GET /api/urls/pending: { copied: false, qualityStatus: 'approved' }
PendingAnswer014(coll, q) ==
  LET found == { d \in Docs(coll) :
                   ~d.copied /\ d.qualityStatus = "approved" /\ MatchesFilters014(d, q) }
      list == UrlList(Limited(SortByUrl(found), q.limit))
  IN Answer("pending014", q, 200, [urls |-> list, count |-> Len(list)])

\* POST /api/mark-copied: the records it selects
MarkSelection014(coll, b) ==
  IF b.allPending
    THEN { d \in Docs(coll) : ~d.copied /\ d.qualityStatus = "approved" /\ MatchesFilters014(d, b) }
    ELSE { d \in Docs(coll) : d.url \in Elems(b.urls) }

Domains014(sc) == {NoDomain, "https://b.example"}
Searches014(sc) == { << >>, <<"A">> }
ListQueries014(sc) ==
  IF sc = "status"
    THEN { [domain |-> d, status |-> st, search |-> se, page |-> pg, limit |-> 2] :
             d \in Domains014(sc),
             st \in {"all", "unchecked", "pending", "rejected", "copied"},
             se \in Searches014(sc), pg \in {1, 2} }
    ELSE { }
PendingQueries014(sc) ==
  IF sc = "status"
    THEN { [domain |-> d, search |-> se, limit |-> l] :
             d \in Domains014(sc), se \in Searches014(sc), l \in {0, 1} }
    ELSE { }
MarkBodies014(sc) ==
  IF sc = "status"
    THEN { [allPending |-> TRUE, urls |-> NoArray, domain |-> d, search |-> se] :
             d \in Domains014(sc), se \in Searches014(sc) }
         \cup { [allPending |-> FALSE, urls |-> l, domain |-> NoDomain, search |-> << >>] :
                  l \in { NoArray, << ScanUrl(2) >> } }
    ELSE { }

GetUrls014 ==
  /\ ScanQuiet
  /\ answer = NoAnswer
  /\ \E q \in ListQueries014(scenario) : answer' = ListAnswer014(sitemapUrls, q)
  /\ UNCHANGED <<scenario, extract, copier, remote, pc, req, resolverVars, pages, storeVars, filterVars,
                 newUrlsStoredCount, resp, pq, qualityCalls, scanVars, transferVars>>

GetPendingUrls014 ==
  /\ ScanQuiet
  /\ answer = NoAnswer
  /\ \E q \in PendingQueries014(scenario) : answer' = PendingAnswer014(sitemapUrls, q)
  /\ UNCHANGED <<scenario, extract, copier, remote, pc, req, resolverVars, pages, storeVars, filterVars,
                 newUrlsStoredCount, resp, pq, qualityCalls, scanVars, transferVars>>

PostMarkCopied014 ==
  /\ ScanQuiet
  /\ answer = NoAnswer
  /\ \E b \in MarkBodies014(scenario) :
       IF MarkValid(b)
         THEN /\ sitemapUrls' = SetCopied(sitemapUrls, MarkSelection014(sitemapUrls, b))
              /\ answer' = Answer("mark014", b, 200, << >>)
         ELSE /\ answer' = Answer("mark014", b, 400, << >>)
              /\ UNCHANGED sitemapUrls
  /\ UNCHANGED <<scenario, extract, copier, remote, pc, req, resolverVars, pages, storeVars, filterVars,
                 newUrlsStoredCount, resp, pq, qualityCalls, scan, client, transferVars>>

\* ================================================================
\* Backup and restore (src/backend/index.js, GET /api/backup and
\* POST /api/restore), clear-database and the two delete endpoints.
\* A record's _id stands in one-to-one for its url (the unique index), so an
\* id is modelled by that url.

\* The chunks res.write() is given: the punctuation (its quotes left out)
\* and JSON.stringify(doc).
Chunk(t, val) == [t |-> t, val |-> val]
NoVal == << >>
OpenChunk == Chunk("{sitemaps:[", NoVal)
CommaChunk == Chunk(",", NoVal)
MidChunk == Chunk("],urls:[", NoVal)
CloseChunk == Chunk("]}", NoVal)
\* JSON.stringify(doc) of a lean document: its fields, _id among them
Stringify(doc) == [f \in DOMAIN doc \cup {"id"} |-> IF f = "id" THEN doc.url ELSE doc[f]]
DocChunk(doc) == Chunk("doc", Stringify(doc))
WriteDocAfterComma(out, isFirst, doc) == out \o <<CommaChunk, DocChunk(doc)>>
\* if (!isFirst) res.write(','); isFirst = false; res.write(JSON.stringify(doc))
WriteDoc(out, isFirst, doc) ==
  out \o (IF isFirst THEN << >> ELSE <<CommaChunk>>) \o <<DocChunk(doc)>>

\* The text between the chunks a and b of a stream is the elements of a JSON
\* array: nothing, or documents separated by commas.
IsArray(s, a, b) ==
  \/ b = a + 1
  \/ /\ b > a /\ (b - a) % 2 = 0
     /\ \A k \in a + 1 .. b - 1 : s[k].t = (IF (k - a) % 2 = 1 THEN "doc" ELSE ",")
ArrayOf(s, a, b) == [k \in 1 .. (b - a) \div 2 |-> s[a + 2 * k - 1].val]
MidOf(s) == CHOOSE m \in 1 .. Len(s) : s[m].t = MidChunk.t
\* The stream is one JSON object { sitemaps: [...], urls: [...] }.
WellFormed(s) ==
  /\ Len(s) >= 3
  /\ s[1].t = OpenChunk.t
  /\ s[Len(s)].t = CloseChunk.t
  /\ Cardinality({ m \in 1 .. Len(s) : s[m].t = MidChunk.t }) = 1
  /\ IsArray(s, 1, MidOf(s))
  /\ IsArray(s, MidOf(s), Len(s))
\* JSONStream.parse('sitemaps.*') and JSONStream.parse('urls.*')
ParseSitemaps(s) == ArrayOf(s, 1, MidOf(s))
ParseUrls(s) == ArrayOf(s, MidOf(s), Len(s))

\* delete doc._id
StripId(obj) == [f \in DOMAIN obj \ {"id"} |-> obj[f]]

\* const SITEMAP_BATCH_SIZE = 500; const URL_BATCH_SIZE = 10000;
SITEMAP_BATCH_SIZE == 500
URL_BATCH_SIZE == 10000

\* Model.collection.insertMany(batch, { ordered: false }) against the unique
\* index on url: every document is tried; one whose url is stored, or comes
\* earlier in the batch, is a write error (code 11000).
Fresh(coll, batch, j) ==
  /\ ~HasUrl(coll, batch[j].url)
  /\ \A k \in 1 .. j - 1 : batch[k].url # batch[j].url
CollectionInsertOrdered(coll, batch) ==
  LET stop == { j \in 1 .. Len(batch) : ~Fresh(coll, batch, j) }
      last == IF stop = {} THEN Len(batch)
              ELSE (CHOOSE j \in stop : \A k \in stop : j <= k) - 1
  IN [coll |-> coll \o SubSeq(batch, 1, last), nInserted |-> last]
\* (CollectionInsertReplacing: the same as an upsert by url.)
CollectionInsertReplacing(coll, batch) ==
  LET kept == SelectSeq([j \in 1 .. Len(batch) |-> j], LAMBDA j : Fresh(coll, batch, j))
      last(u) == CHOOSE j \in 1 .. Len(batch) :
                   batch[j].url = u /\ \A k \in j + 1 .. Len(batch) : batch[k].url # u
  IN [coll |-> [j \in 1 .. Len(coll) |->
                  IF \E k \in 1 .. Len(batch) : batch[k].url = coll[j].url
                    THEN batch[last(coll[j].url)] ELSE coll[j]]
               \o [k \in 1 .. Len(kept) |-> batch[kept[k]]],
      nInserted |-> Len(kept)]
CollectionInsertMany(coll, batch) ==
  LET kept == SelectSeq([j \in 1 .. Len(batch) |-> j], LAMBDA j : Fresh(coll, batch, j))
  IN [coll |-> coll \o [k \in 1 .. Len(kept) |-> batch[kept[k]]], nInserted |-> Len(kept)]

\* handleInsert: result.insertedCount, or err.result?.nInserted || 0
HandleInsert(batch, r) == r.nInserted

\* The documents the loop of a phase takes next: up to a full batch, or the
\* rest of the stream.
Taken(docs, pos, size) == Min(size, Len(docs) - pos)
NextBatchIfFull(docs, pos, size) ==
  IF Taken(docs, pos, size) < size THEN << >>
  ELSE [k \in 1 .. size |-> StripId(docs[pos + k])]
NextBatch(docs, pos, size) ==
  [k \in 1 .. Taken(docs, pos, size) |-> StripId(docs[pos + k])]

\* req.file absent
NoFile == << >>
\* An uploaded file that no backup wrote: more sitemap records than one
\* batch, the first one twice, and URL records with one url twice, one of
\* them with other field values than an import would store.
BigSitemaps ==
  [n \in 1 .. SITEMAP_BATCH_SIZE + 1 |->
     [id |-> n, url |-> IF n = 1 THEN 0 ELSE n - 2, sourceDomain |-> "https://b.example"]]
BigUrls ==
  << [id |-> <<"i">>, url |-> <<"x">>, sourceDomain |-> "https://b.example",
      parentSitemap |-> 2, copied |-> TRUE],
     [id |-> <<"j">>, url |-> <<"x">>, sourceDomain |-> "https://b.example",
      parentSitemap |-> 2, copied |-> FALSE],
     [id |-> <<"k">>, url |-> <<"n">>, sourceDomain |-> "https://b.example",
      parentSitemap |-> 2, copied |-> FALSE] >>
Joined(docs) ==
  [k \in 1 .. (IF Len(docs) = 0 THEN 0 ELSE 2 * Len(docs) - 1) |->
     IF k % 2 = 1 THEN Chunk("doc", docs[(k + 1) \div 2]) ELSE CommaChunk]
BigFile == <<OpenChunk>> \o Joined(BigSitemaps) \o <<MidChunk>> \o Joined(BigUrls) \o <<CloseChunk>>

BackupIdleState == [pc |-> "idle", pos |-> 0, isFirst |-> TRUE, out |-> << >>]
RestoreIdleState ==
  [pc |-> "idle", file |-> NoFile, clearBefore |-> "", pos |-> 0,
   stats |-> [sitemaps |-> 0, urls |-> 0], status |-> 0, served |-> 0]

\* The restore requests a scenario sends: the file the backup wrote, once the
\* store has been emptied, or the uploaded file above.
RestoreRequests(sc) ==
  IF sc = "roundtrip"
    THEN IF backup.pc = "done" /\ urls = << >> /\ files = << >>
           THEN { [file |-> backup.out, clearBefore |-> ""] } ELSE { }
    ELSE IF sc = "restore"
    THEN { [file |-> BigFile, clearBefore |-> c] : c \in {"true", "false", "TRUE"} }
         \cup { [file |-> NoFile, clearBefore |-> "true"] }
    ELSE { }
\* The ids the delete requests name: stored ones, one that is not stored, and
\* one that is no ObjectId.
MissingId == 0 - 4
MalformedId == 0 - 5
MissingUrlId == <<"z">>
MalformedUrlId == <<"?">>
UrlIds(sc) == IF sc = "roundtrip" THEN { <<"x">>, MissingUrlId, MalformedUrlId } ELSE { }
SitemapFileIds(sc) == IF sc = "roundtrip" THEN { 1, MissingId, MalformedId } ELSE { }

\* The imports of the scenario have been served and no transfer is running.
ImportsServed == \A p \in 1 .. ImportsIn(scenario) : pc[p] = "done"
TransferQuiet == backup.pc \in {"idle", "done"} /\ restore.pc \in {"idle", "done"}

\* GET /api/backup up to the first cursor: res.write('{"sitemaps":[')
StartBackup ==
  /\ scenario = "roundtrip"
  /\ ImportsServed /\ TransferQuiet
  /\ backup' = [pc |-> "sitemaps", pos |-> 0, isFirst |-> TRUE, out |-> <<OpenChunk>>]
  /\ UNCHANGED <<scenario, extract, copier, remote, pc, req, resolverVars, pages, storeVars, filterVars,
                 newUrlsStoredCount, resp, pq, qualityCalls, scanVars, answer, restore>>

\* One turn of for await (const doc of SitemapFile.find().lean().cursor()),
\* or its end and res.write('],"urls":[')
BackupSitemap ==
  /\ backup.pc = "sitemaps"
  /\ backup' = IF backup.pos < Len(files)
                 THEN [backup EXCEPT !.out = WriteDoc(@, backup.isFirst, files[backup.pos + 1]),
                                     !.isFirst = FALSE, !.pos = @ + 1]
                 ELSE [backup EXCEPT !.out = Append(@, MidChunk), !.pc = "urls",
                                     !.isFirst = TRUE, !.pos = 0]
  /\ UNCHANGED <<scenario, extract, copier, remote, pc, req, resolverVars, pages, storeVars, filterVars,
                 newUrlsStoredCount, resp, pq, qualityCalls, scanVars, answer, restore>>

\* One turn of for await (const doc of SitemapUrl.find().lean().cursor()),
\* or its end, res.write(']}') and res.end()
BackupUrl ==
  /\ backup.pc = "urls"
  /\ backup' = IF backup.pos < Len(urls)
                 THEN [backup EXCEPT !.out = WriteDoc(@, backup.isFirst, urls[backup.pos + 1]),
                                     !.isFirst = FALSE, !.pos = @ + 1]
                 ELSE [backup EXCEPT !.out = Append(@, CloseChunk), !.pc = "done"]
  /\ UNCHANGED <<scenario, extract, copier, remote, pc, req, resolverVars, pages, storeVars, filterVars,
                 newUrlsStoredCount, resp, pq, qualityCalls, scanVars, answer, restore>>

\* POST /api/restore up to the first stream: no file -> 400; clearBefore
\* === 'true' empties both collections; stats = { sitemaps: 0, urls: 0 }
\* if (clearBefore === 'true'), and the same test as if (clearBefore)
ClearsBeforeTruthy(clearBefore) == clearBefore # ""
ClearsBefore(clearBefore) == clearBefore = "true"

StartRestore ==
  /\ ImportsServed /\ TransferQuiet
  /\ restore.served < MaxRestores
  /\ \E request \in RestoreRequests(scenario) :
       IF request.file = NoFile
         THEN /\ restore' = [RestoreIdleState EXCEPT !.pc = "done", !.status = 400,
                                                     !.clearBefore = request.clearBefore,
                                                     !.served = restore.served + 1]
              /\ UNCHANGED storeVars
         ELSE /\ restore' = [RestoreIdleState EXCEPT !.pc = "sitemaps", !.file = request.file,
                                                     !.clearBefore = request.clearBefore,
                                                     !.served = restore.served + 1]
              /\ urls' = IF ClearsBefore(request.clearBefore) THEN << >> ELSE urls
              /\ files' = IF ClearsBefore(request.clearBefore) THEN << >> ELSE files
  /\ UNCHANGED <<scenario, extract, copier, remote, pc, req, resolverVars, pages, filterVars,
                 newUrlsStoredCount, resp, pq, qualityCalls, scanVars, answer, backup>>

\* Phase 1: the next batch of the sitemap stream goes through handleInsert
\* (a full batch inside the loop, the rest after it); at the end of the
\* stream the handler turns to the URLs.
RestoreSitemaps ==
  /\ restore.pc = "sitemaps"
  /\ LET docs == ParseSitemaps(restore.file)
         batch == NextBatch(docs, restore.pos, SITEMAP_BATCH_SIZE)
         r == CollectionInsertMany(files, batch)
     IN IF restore.pos < Len(docs)
          THEN /\ files' = r.coll
               /\ restore' = [restore EXCEPT !.pos = @ + Taken(docs, restore.pos, SITEMAP_BATCH_SIZE),
                                             !.stats.sitemaps = @ + HandleInsert(batch, r)]
          ELSE /\ files' = files
               /\ restore' = [restore EXCEPT !.pc = "urls", !.pos = 0]
  /\ urls' = urls
  /\ UNCHANGED <<scenario, extract, copier, remote, pc, req, resolverVars, pages, filterVars,
                 newUrlsStoredCount, resp, pq, qualityCalls, scanVars, answer, backup>>

\* Phase 2: the same over the URL stream; at its end the handler answers
\* with the two counts.
RestoreUrls ==
  /\ restore.pc = "urls"
  /\ LET docs == ParseUrls(restore.file)
         batch == NextBatch(docs, restore.pos, URL_BATCH_SIZE)
         r == CollectionInsertMany(urls, batch)
     IN IF restore.pos < Len(docs)
          THEN /\ urls' = r.coll
               /\ restore' = [restore EXCEPT !.pos = @ + Taken(docs, restore.pos, URL_BATCH_SIZE),
                                             !.stats.urls = @ + HandleInsert(batch, r)]
          ELSE /\ urls' = urls
               /\ restore' = [restore EXCEPT !.pc = "done", !.status = 200]
  /\ files' = files
  /\ UNCHANGED <<scenario, extract, copier, remote, pc, req, resolverVars, pages, filterVars,
                 newUrlsStoredCount, resp, pq, qualityCalls, scanVars, answer, backup>>

\* POST /api/clear-database
ClearDatabase ==
  /\ scenario = "roundtrip"
  /\ ImportsServed /\ TransferQuiet
  /\ urls' = << >>
  /\ files' = << >>
  /\ UNCHANGED <<scenario, extract, copier, remote, pc, req, resolverVars, pages, filterVars,
                 newUrlsStoredCount, resp, pq, qualityCalls, scanVars, answer, transferVars>>

\* Model.findByIdAndDelete(id): an id that is no ObjectId throws a CastError,
\* an id of no document resolves to null, and the document of a stored id is
\* removed.
Removed(coll, id) == SelectSeq(coll, LAMBDA d : d.url # id)
\* req.params is recorded as the route and its :id
DeleteAnswer(op, id, malformed, error) ==
  IF malformed THEN Answer(op, [params |-> <<op, id>>], 500, [error |-> error])
  ELSE Answer(op, [params |-> <<op, id>>], 200, [success |-> TRUE])

\* DELETE /api/urls/:id
DeleteUrl ==
  /\ ImportsServed /\ TransferQuiet
  /\ answer = NoAnswer
  /\ \E id \in UrlIds(scenario) :
       /\ urls' = IF id = MalformedUrlId THEN urls ELSE Removed(urls, id)
       /\ answer' = DeleteAnswer("deleteUrl", id, id = MalformedUrlId, "Failed to delete URL")
  /\ files' = files
  /\ UNCHANGED <<scenario, extract, copier, remote, pc, req, resolverVars, pages, filterVars,
                 newUrlsStoredCount, resp, pq, qualityCalls, scanVars, transferVars>>

\* DELETE /api/sitemaps/:id
DeleteSitemap ==
  /\ ImportsServed /\ TransferQuiet
  /\ answer = NoAnswer
  /\ \E id \in SitemapFileIds(scenario) :
       /\ files' = IF id = MalformedId THEN files ELSE Removed(files, id)
       /\ answer' = DeleteAnswer("deleteSitemap", id, id = MalformedId,
                                 "Failed to delete sitemap")
  /\ urls' = urls
  /\ UNCHANGED <<scenario, extract, copier, remote, pc, req, resolverVars, pages, filterVars,
                 newUrlsStoredCount, resp, pq, qualityCalls, scanVars, transferVars>>

\* ================================================================
\* copyAllPending of the client (src/frontend/types.ts, src/unnamed/part_000,
\* src/frontend/App.tsx): GET /api/urls/pending with the filters on screen,
\* the text to the clipboard, then POST /api/mark-copied with allPending and
\* the same filters.

CopierIdleState == [pc |-> "idle", search |-> << >>, parentSitemap |-> MissingUrl, text |-> << >>]
\* searchTerm and the parentSitemap argument
CopyFilters(sc) ==
  IF sc = "copyall"
    THEN { [search |-> se, parentSitemap |-> s] : se \in { << >>, <<"R">> }, s \in {MissingUrl, 1} }
    ELSE IF sc = "restore" THEN { [search |-> << >>, parentSitemap |-> MissingUrl] }
    ELSE { }
\* new URLSearchParams({ search: searchTerm, ...(parentSitemap ? { parentSitemap } : {}) })
PendingQueryOf(f) ==
  [domain |-> NoDomain, parentSitemap |-> f.parentSitemap, search |-> f.search, limit |-> 0]
\* { allPending: true, search: searchTerm, parentSitemap }
MarkBodyOf(f) ==
  [allPending |-> TRUE, urls |-> NoArray, domain |-> NoDomain,
   parentSitemap |-> f.parentSitemap, search |-> f.search]

\* copyAllPending up to the answer of GET /api/urls/pending: if (data.text)
\* the text goes to the clipboard, else nothing is copied.
FetchPendingText ==
  /\ copier.pc \in {"idle", "done"}
  /\ \E f \in CopyFilters(scenario) :
       LET data == PendingAnswer(urls, PendingQueryOf(f)).body
       IN copier' = [pc |-> IF data.urls # << >> THEN "copied" ELSE "done",
                     search |-> f.search, parentSitemap |-> f.parentSitemap,
                     text |-> data.urls]
  /\ UNCHANGED <<scenario, extract, remote, pc, req, resolverVars, pages, storeVars, filterVars,
                 newUrlsStoredCount, resp, pq, qualityCalls, serviceVars>>

\* The rest of copyAllPending: POST /api/mark-copied is served.
MarkAllPending ==
  /\ copier.pc = "copied"
  /\ urls' = SetCopied(urls, MarkSelection(urls, MarkBodyOf(copier)))
  /\ copier' = [copier EXCEPT !.pc = "done"]
  /\ UNCHANGED <<scenario, extract, remote, pc, req, resolverVars, pages, files, filterVars,
                 newUrlsStoredCount, resp, pq, qualityCalls, serviceVars>>

\* ================================================================
\* extractUrlsFromSitemap of the quality-status backend (src/unnamed/part_014,
\* the same in src/unnamed/part_013), step by step, for roots that are
\* indexes: each call fetches and parses its sitemap, and calls itself for
\* every nested entry.

ExtractIdleState ==
  [pc |-> "idle", req |-> [sitemapUrl |-> MissingUrl, filterPattern |-> << >>],
   stack |-> << >>, fetchLog |-> << >>, allFoundUrls |-> << >>]
IndexRequests(sc) ==
  IF sc = "cyclic" THEN { [sitemapUrl |-> 0, filterPattern |-> << >>] } ELSE { }
ExtractQuiet == extract.pc \in {"idle", "done"}

\* POST /api/extract-sitemap up to the resolver's first fetch
StartExtract014 ==
  /\ ScanQuiet /\ ExtractQuiet
  /\ answer = NoAnswer
  /\ \E r \in IndexRequests(scenario) :
       extract' = [pc |-> "fetch", req |-> r, stack |-> <<Frame(r.sitemapUrl)>>,
                   fetchLog |-> << >>, allFoundUrls |-> << >>]
  /\ UNCHANGED <<scenario, copier, remote, pc, req, resolverVars, pages, storeVars, filterVars,
                 newUrlsStoredCount, resp, pq, qualityCalls, serviceVars>>

\* fetchContent and parseStringPromise of the innermost call complete.
FetchSitemap014 ==
  /\ extract.pc = "fetch"
  /\ Len(extract.fetchLog) < MaxFetches
  /\ LET top == Head(extract.stack)
         rest == Tail(extract.stack)
     IN \E d \in (IF remote[top.url] = Unfetched
                    THEN DocChoices(scenario, top.url) ELSE {remote[top.url]}) :
          /\ remote' = [remote EXCEPT ![top.url] = d]
          /\ extract' =
               IF d.kind = "sitemapindex"
                 THEN [extract EXCEPT !.fetchLog = Append(@, top.url),
                                      !.stack = <<[top EXCEPT !.locs = d.locs, !.idx = 1]>> \o rest,
                                      !.pc = "iterate"]
                 ELSE [extract EXCEPT !.fetchLog = Append(@, top.url),
                                      !.stack = rest,
                                      !.pc = ReturnTo(rest),
                                      !.allFoundUrls = IF d.kind = "urlset"
                                                         THEN ExtractLocs(@, d.locs) ELSE @]
  /\ UNCHANGED <<scenario, copier, pc, req, resolverVars, pages, storeVars, filterVars,
                 newUrlsStoredCount, resp, pq, qualityCalls, serviceVars>>

\* One iteration of for (const sitemapEntry of result.sitemapindex.sitemap),
\* or the end of the loop: if (nestedSitemapUrl) the resolver calls itself.
IterateIndex014 ==
  /\ extract.pc = "iterate"
  /\ LET top == Head(extract.stack)
         rest == Tail(extract.stack)
     IN IF top.idx > Len(top.locs)
          THEN extract' = [extract EXCEPT !.stack = rest, !.pc = ReturnTo(rest)]
          ELSE LET nested == top.locs[top.idx]
                   next == [top EXCEPT !.idx = @ + 1]
               IN extract' = IF nested # NoSitemap
                               THEN [extract EXCEPT !.stack = <<Frame(nested), next>> \o rest,
                                                    !.pc = "fetch"]
                               ELSE [extract EXCEPT !.stack = <<next>> \o rest]
  /\ UNCHANGED <<scenario, copier, remote, pc, req, resolverVars, pages, storeVars, filterVars,
                 newUrlsStoredCount, resp, pq, qualityCalls, serviceVars>>

\* The resolver has returned: 404 if nothing was found, else the unchecked
\* records are inserted and the handler answers.
FinishExtract014 ==
  /\ extract.pc = "resolved"
  /\ answer = NoAnswer
  /\ LET r == extract.req
         toStore == UncheckedRecords(extract.allFoundUrls, r.filterPattern, Origin(r.sitemapUrl))
         ins == InsertMany(sitemapUrls, toStore)
     IN IF Len(extract.allFoundUrls) = 0
          THEN /\ answer' = Answer("extract", r, 404, << >>)
               /\ UNCHANGED sitemapUrls
          ELSE /\ sitemapUrls' = ins.coll
               /\ answer' = Answer("extract", r, 200,
                                   [newUrlsStored |-> IF Len(toStore) > 0
                                                        THEN StoredCount(toStore, ins) ELSE 0,
                                    totalUrlsFound |-> Len(extract.allFoundUrls),
                                    skipped |-> Len(extract.allFoundUrls) - Len(toStore)])
  /\ extract' = [extract EXCEPT !.pc = "done"]
  /\ UNCHANGED <<scenario, copier, remote, pc, req, resolverVars, pages, storeVars, filterVars,
                 newUrlsStoredCount, resp, pq, qualityCalls, scan, client, transferVars>>

\* ------------------------------------------------------- specifications

InitState ==
  /\ remote = [s \in SitemapIds |-> Unfetched]
  /\ pages = [u \in AllUrls |-> UnfetchedPage]
  /\ urls = << >>
  /\ files = << >>
  /\ pc = [p \in Procs |-> "idle"]
  /\ req = [p \in Procs |-> ImportRequest(MissingUrl, << >>, FALSE)]
  /\ allFoundUrlMap = [p \in Procs |-> << >>]
  /\ allFoundSitemaps = [p \in Procs |-> << >>]
  /\ stack = [p \in Procs |-> << >>]
  /\ fetchLog = [p \in Procs |-> << >>]
  /\ candidates = [p \in Procs |-> << >>]
  /\ i = [p \in Procs |-> 0]
  /\ results = [p \in Procs |-> << >>]
  /\ inflight = [p \in Procs |-> {}]
  /\ scanned = [p \in Procs |-> {}]
  /\ newUrlsToStore = [p \in Procs |-> << >>]
  /\ patternSkippedCount = [p \in Procs |-> 0]
  /\ qualitySkippedCount = [p \in Procs |-> 0]
  /\ newUrlsStoredCount = [p \in Procs |-> 0]
  /\ resp = [p \in Procs |-> NoResponse]
  /\ pq = QualityIdleState
  /\ qualityCalls = 0
  /\ sitemapUrls = << >>
  /\ scan = ScanIdleState
  /\ client = ClientIdleState
  /\ answer = NoAnswer
  /\ backup = BackupIdleState
  /\ restore = RestoreIdleState
  /\ copier = CopierIdleState
  /\ extract = ExtractIdleState

Init == scenario \in Scenarios /\ InitState

Next ==
  \/ \E p \in Procs :
       \/ StartImport(p)
       \/ FetchSitemap(p)
       \/ IterateIndex(p)
       \/ CheckFound(p)
       \/ StartBatch(p)
       \/ CompleteCheck(p)
       \/ CollectBatch(p)
       \/ InsertUrls(p)
       \/ InsertFiles(p)
  \/ StartQuality
  \/ CompleteQuality
  \/ FinishQuality
  \/ ExtractSitemap014
  \/ RunScan
  \/ StartScan
  \/ CompleteScanCheck
  \/ FinishScan
  \/ ReceiveScan
  \/ ReceiveAnswer
  \/ GetUrls
  \/ GetUrls013
  \/ GetPendingUrls
  \/ PostMarkCopied
  \/ GetUrls014
  \/ GetPendingUrls014
  \/ PostMarkCopied014
  \/ StartBackup
  \/ BackupSitemap
  \/ BackupUrl
  \/ StartRestore
  \/ RestoreSitemaps
  \/ RestoreUrls
  \/ ClearDatabase
  \/ DeleteUrl
  \/ DeleteSitemap
  \/ FetchPendingText
  \/ MarkAllPending
  \/ StartExtract014
  \/ FetchSitemap014
  \/ IterateIndex014
  \/ FinishExtract014

Spec == Init /\ [][Next]_vars

InitResolve == scenario = "resolve" /\ InitState

NextResolve ==
  \E p \in Procs :
    \/ StartImport(p)
    \/ FetchSitemap(p)
    \/ IterateIndex(p)

\* Every fetch ends (a reply, an error or the 10 s timeout), and the loop
\* steps are the handler's own: a resolution that can step does step.
SpecResolve == InitResolve /\ [][NextResolve]_vars /\ WF_vars(NextResolve)

\* ------------------------------------------------------------- properties

NoDuplicates(s) == \A j, k \in 1 .. Len(s) : s[j] = s[k] => j = k
Resolving(p) == pc[p] \in {"fetch", "iterate"}
IsIndex(s) == remote[s].kind = "sitemapindex"
IsUrlset(s) == remote[s].kind = "urlset"

\* C1 (cycle safety): whatever the sitemap documents reference, themselves,
\* the root or an ancestor included, no sitemap URL is fetched twice during
\* one resolution, and every resolution that has started returns to the
\* handler.
C1_CycleSafety ==
  /\ [](\A p \in Procs : NoDuplicates(fetchLog[p]))
  /\ \A p \in Procs : Resolving(p) ~> (pc[p] = "resolved")

\* A resolution has returned on documents where the root index lists itself
\* and a child index lists the root.
C1_Witness ==
  /\ pc[1] = "resolved"
  /\ IsIndex(0) /\ 0 \in Elems(remote[0].locs)
  /\ IsIndex(1) /\ 0 \in Elems(remote[1].locs)
  /\ Len(fetchLog[1]) >= 2

\* The depth-first, in-document-order traversal of the fetched documents from
\* a root, a sitemap being entered the first time it is listed.
RECURSIVE DfsVisit(_, _), DfsChildren(_, _, _)
DfsVisit(s, acc) ==
  LET entered == [acc EXCEPT !.order = Append(@, s)]
  IN IF IsIndex(s) THEN DfsChildren(remote[s].locs, 1, entered) ELSE entered
DfsChildren(locs, j, acc) ==
  IF j > Len(locs) THEN acc
  ELSE IF locs[j] = NoSitemap \/ locs[j] \in acc.seen
         THEN DfsChildren(locs, j + 1, acc)
         ELSE DfsChildren(locs, j + 1, DfsVisit(locs[j], [acc EXCEPT !.seen = @ \cup {locs[j]}]))
DfsOrder(root) == DfsVisit(root, [seen |-> {root}, order |-> << >>]).order

Declares(s, u) == IsUrlset(s) /\ u \in Elems(remote[s].locs)
\* The first sitemap of an order that declares u.
FirstDeclarer(order, u) ==
  order[CHOOSE j \in 1 .. Len(order) :
          /\ Declares(order[j], u)
          /\ \A k \in 1 .. j - 1 : ~Declares(order[k], u)]

\* The request was accepted and its resolver has returned.
Resolved(p) == pc[p] \in {"resolved", "batch", "await", "insertUrls", "insertFiles"}
                 \/ (pc[p] = "done" /\ resp[p].status # 400)
Succeeded(p) == pc[p] = "done" /\ resp[p].status = 200
OnlyImport(p) == restore.served = 0 /\ \A q \in Procs \ {p} : pc[q] = "idle"

\* C2 (first parent wins): once a resolution has returned, the parent the url
\* map holds for a URL is the first sitemap, in depth-first document order
\* from the root, that declares it; and after the first import into the empty
\* store has inserted its URL records, each carries that parent.
C2_FirstParentWins ==
  \A p \in Procs :
    Resolved(p) =>
      LET order == DfsOrder(req[p].sitemapUrl)
      IN /\ \A j \in 1 .. Len(allFoundUrlMap[p]) :
              allFoundUrlMap[p][j].val = FirstDeclarer(order, allFoundUrlMap[p][j].key)
         /\ (pc[p] \in {"insertFiles", "done"} /\ OnlyImport(p)) =>
              \A j \in 1 .. Len(urls) :
                urls[j].parentSitemap = FirstDeclarer(order, urls[j].url)

\* The first import has stored a URL that two fetched url sets declare.
C2_Witness ==
  /\ Succeeded(1) /\ OnlyImport(1)
  /\ \E j \in 1 .. Len(urls) :
       \E s1, s2 \in Elems(fetchLog[1]) :
         s1 # s2 /\ Declares(s1, urls[j].url) /\ Declares(s2, urls[j].url)

\* The sitemaps reachable from a root through the fetched index documents.
RECURSIVE Closure(_)
Closure(S) ==
  LET more == S \cup { c \in SitemapIds : \E s \in S : IsIndex(s) /\ c \in Elems(remote[s].locs) }
  IN IF more = S THEN S ELSE Closure(more)
Reach(root) == Closure({root})
DeclaredUrls(S) == { u \in AllUrls : \E s \in S : Declares(s, u) }

\* C3 (deduplicated counts): once a resolution has returned, the url map
\* holds one entry per distinct non-empty <loc> of the url sets reachable
\* from the root and the sitemap set is exactly the reachable sitemaps, the
\* root included; the report's totalUrlsFound is that count, 7 with 3
\* sitemaps for the index over leaves of 3 and 5 URLs that share one.
C3_DedupCounts ==
  \A p \in Procs :
    Resolved(p) =>
      LET reach == Reach(req[p].sitemapUrl)
          distinct == Cardinality(DeclaredUrls(reach))
      IN /\ Len(allFoundUrlMap[p]) = distinct
         /\ Elems(allFoundSitemaps[p]) = reach
         /\ NoDuplicates(allFoundSitemaps[p])
         /\ Succeeded(p) =>
              /\ resp[p].totalUrlsFound = distinct
              /\ scenario = "example" =>
                   resp[p].totalUrlsFound = 7 /\ Len(allFoundSitemaps[p]) = 3

\* The import of the two-leaf example has answered.
C3_Witness ==
  /\ scenario = "example"
  /\ Succeeded(1)
  /\ Len(remote[1].locs) = 3 /\ Len(remote[2].locs) = 5
  /\ resp[1].totalUrlsFound = 7

\* C4 (partial failure): once a resolution has returned, every sitemap
\* reachable from the root has been fetched, whatever failed before it; a
\* sitemap whose fetch or parse failed, or that held no entries, is in the
\* sitemap set and is the parent of no URL.
C4_PartialFailure ==
  \A p \in Procs :
    Resolved(p) =>
      /\ Elems(fetchLog[p]) = Reach(req[p].sitemapUrl)
      /\ \A s \in Elems(fetchLog[p]) :
           remote[s].kind \in {"error", "other"} =>
             /\ SetHas(allFoundSitemaps[p], s)
             /\ \A j \in 1 .. Len(allFoundUrlMap[p]) : allFoundUrlMap[p][j].val # s

\* A resolution has returned whose first child failed and whose second
\* child, listed after it, contributed URLs.
C4_Witness ==
  /\ Resolved(1)
  /\ IsIndex(0) /\ remote[0].locs = <<1, 2>>
  /\ remote[1].kind = "error"
  /\ \E j \in 1 .. Len(allFoundUrlMap[1]) : allFoundUrlMap[1][j].val = 2

UrlsOf(coll) == { coll[j].url : j \in 1 .. Len(coll) }
Filtered(p) == pc[p] \in {"insertUrls", "insertFiles"} \/ Succeeded(p)
InsertsUrls(p) == pc[p] = "insertUrls" /\ pc'[p] = "insertFiles"

\* C5 (idempotent import): when an import that succeeded is followed by an
\* import of the same request, the second one's insert leaves the URL
\* collection as it was, and it reports newUrlsStored = 0 and the
\* totalUrlsFound of the first. (Imports follow one another where requests
\* are not served concurrently.)
C5_IdempotentImport ==
  /\ [](\A p \in Procs \ {1} :
          (~Overlapping(scenario) /\ Succeeded(p - 1) /\ Succeeded(p)
             /\ req[p] = req[p - 1]) =>
            /\ resp[p].newUrlsStored = 0
            /\ resp[p].totalUrlsFound = resp[p - 1].totalUrlsFound)
  /\ [][\A p \in Procs \ {1} :
          (InsertsUrls(p) /\ Succeeded(p - 1) /\ req[p] = req[p - 1]) => urls' = urls]_vars

\* The same request has been served twice, with the quality filter on, and
\* the first import stored something.
C5_Witness ==
  /\ Succeeded(1) /\ Succeeded(2)
  /\ req[2] = req[1]
  /\ req[1].enableQualityFilter
  /\ resp[1].newUrlsStored > 0
  /\ resp[1].qualitySkipped > 0

\* The classification of a request's candidates, given the set of them
\* that the pattern filter rejects.
Classified(p, skipped) ==
  LET cands == Elems(candidates[p])
      quality == req[p].enableQualityFilter
  IN /\ scanned[p] = (IF quality THEN cands \ skipped ELSE {})
     /\ patternSkippedCount[p] = Cardinality(skipped)
     /\ qualitySkippedCount[p] =
          Cardinality({ u \in cands \ skipped : quality /\ ~checkUrlQuality(pages[u]) })
     /\ UrlsOf(newUrlsToStore[p]) =
          { u \in cands \ skipped : quality => checkUrlQuality(pages[u]) }

\* C6 as stated (filter composition and order): once the filter loop has
\* ended, the candidates that do not contain a non-empty pattern are exactly
\* those counted in patternSkipped, and none of them was quality-scanned; the
\* others that fail the enabled quality check are exactly those counted in
\* qualitySkipped; the rest is what is stored.
C6_AnyNonEmptyPatternFilters ==
  \A p \in Procs :
    Filtered(p) =>
      Classified(p, { u \in Elems(candidates[p]) :
                        req[p].filterPattern # << >> /\ ~Includes(u, req[p].filterPattern) })

\* C6 as amended: the same, for a pattern that is non-empty after trimming
\* white space; a pattern of white space only filters nothing.
C6_FilterComposition ==
  \A p \in Procs :
    Filtered(p) =>
      Classified(p, { u \in Elems(candidates[p]) :
                        Trim(req[p].filterPattern) # << >> /\ ~Includes(u, req[p].filterPattern) })

\* A filter loop has ended that skipped one candidate for the pattern and
\* another, which contains the pattern, for its quality.
C6_Witness ==
  /\ pc[1] = "insertUrls"
  /\ req[1].filterPattern = <<"r">> /\ req[1].enableQualityFilter
  /\ patternSkippedCount[1] > 0
  /\ qualitySkippedCount[1] > 0

\* C7 (empty resolution is a failed import): an accepted import whose root
\* yields no URL and no child sitemap answers 404.
C7_EmptyResolutionFails ==
  \A p \in Procs :
    (pc[p] = "done" /\ resp[p].status # 400
       /\ Len(allFoundUrlMap[p]) = 0
       /\ Elems(allFoundSitemaps[p]) \subseteq {req[p].sitemapUrl})
      => resp[p].status = 404

\* C8 (duplicate-tolerant bulk insert): no url is stored twice; the insert of
\* an import's kept candidates goes on to the sitemap insert whatever is
\* already stored, keeps every stored record as it is, adds exactly the kept
\* candidates whose url was not stored, and counts exactly those; the report
\* carries that count.
C8_DuplicateTolerantInsert ==
  /\ [](/\ NoDuplicates([j \in 1 .. Len(urls) |-> urls[j].url])
        /\ \A p \in Procs : Succeeded(p) => resp[p].newUrlsStored = newUrlsStoredCount[p])
  /\ [][\A p \in Procs :
          InsertsUrls(p) =>
            LET fresh == UrlsOf(newUrlsToStore[p]) \ UrlsOf(urls)
            IN /\ UrlsOf(urls') = UrlsOf(urls) \cup UrlsOf(newUrlsToStore[p])
               /\ SubSeq(urls', 1, Len(urls)) = urls
               /\ Len(urls') = Len(urls) + Cardinality(fresh)
               /\ newUrlsStoredCount'[p] = Cardinality(fresh)]_vars

\* An import has inserted some of its kept candidates while others were
\* already stored.
C8_Witness ==
  /\ pc[2] = "insertFiles"
  /\ newUrlsStoredCount[2] > 0
  /\ newUrlsStoredCount[2] < Len(newUrlsToStore[2])

\* The candidates of the batch the loop is at.
CurrentBatch(p) ==
  { candidates[p][j] : j \in { k \in 1 .. Len(candidates[p]) : k > i[p] /\ k <= i[p] + BATCH_SIZE } }

\* C9 (bounded fan-out in import): at most BATCH_SIZE quality checks of an
\* import are in flight, all of them for candidates of the batch the loop is
\* at, and none is in flight when the loop goes on to the next batch.
C9_BoundedImportFanout ==
  \A p \in Procs :
    /\ Cardinality(inflight[p]) <= BATCH_SIZE
    /\ inflight[p] \subseteq CurrentBatch(p)
    /\ pc[p] # "await" => inflight[p] = {}

\* The checks of a second batch are in flight, after a first batch of
\* BATCH_SIZE checked candidates.
C9_Witness ==
  /\ pc[1] = "await"
  /\ i[1] = BATCH_SIZE
  /\ inflight[1] # {}
  /\ Len(newUrlsToStore[1]) + qualitySkippedCount[1] = BATCH_SIZE

\* C10 (bounded fan-out in the quality batch): whatever the limit, at most
\* one fixed-size group of quality checks of a process-quality request is in
\* flight; the group size is taken to be the import's, BATCH_SIZE.
C10_BoundedQualityFanout == Cardinality(pq.inflight) <= BATCH_SIZE

UncheckedUrls == { sitemapUrls[j].url : j \in { k \in 1 .. Len(sitemapUrls) :
                                                  sitemapUrls[k].qualityStatus = "unchecked" } }
\* The scan handler sends its answer; the client loop ends.
AnswersScan == scan'.pc = "done" /\ scan' # scan
EndsLoop == client.pc = "wait" /\ client'.pc = "done"

\* C11 (scan accounting and progress): no handler runs beside the scan; a
\* call with limit N that answers while U records are unchecked reports
\* processed = min(N, U), approved + rejected = processed and remaining =
\* U - processed; when the client loop ends no record is unchecked, and over
\* 25 unchecked records its totals sum to 25.
C11_ScanAccounting ==
  [][/\ AnswersScan =>
          LET U == Cardinality(UncheckedUrls)
          IN /\ scan'.resp.processed = Min(scan'.limit, U)
             /\ scan'.resp.approved + scan'.resp.rejected = scan'.resp.processed
             /\ scan'.resp.remaining = U - scan'.resp.processed
     /\ EndsLoop =>
          /\ UncheckedUrls' = {}
          /\ scenario = "scanmany" => client'.totalApproved + client'.totalRejected = ManyCount
    ]_vars

\* A page whose fetch succeeded and whose two values both parsed.
Parses(page) == page.kind = "html" /\ ~page.rating.nan /\ ~page.reviews.nan
IsNumber(x) == ~x.nan

\* C12 (quality classification): for every page fetched, both backends'
\* checks pass exactly when the rating and the review count parse and rating
\* >= 4.0 and reviews >= 50 (4.0 with 50 passes; 3.9, or 49, fails); a fetch
\* failure, a parse failure or a missing element gives a non-passing result
\* whose rating and reviews are numbers (zero or another sentinel), and no
\* scan answers with an error.
C12_QualityClassification ==
  /\ \A u \in AllUrls :
       pages[u] # UnfetchedPage =>
         LET page == pages[u]
             q == checkUrlQuality014(page)
             passes == Parses(page) /\ page.rating.v >= 40 /\ page.reviews.v >= 50
         IN /\ q.valid = passes
            /\ checkUrlQuality(page) = passes
            /\ ~Parses(page) => ~q.valid /\ IsNumber(q.rating) /\ IsNumber(q.reviews)
  /\ checkUrlQuality014(Html(Num(40), Num(50))).valid
  /\ ~checkUrlQuality014(Html(Num(39), Num(50))).valid
  /\ ~checkUrlQuality014(Html(Num(40), Num(49))).valid
  /\ scan.resp.status # 500

\* C13 (quality-status invariant): every stored record whose qualityStatus
\* is approved or rejected has a rating and a review count that are numbers.
C13_StatusImpliesNumbers ==
  \A j \in 1 .. Len(sitemapUrls) :
    sitemapUrls[j].qualityStatus \in {"approved", "rejected"} =>
      IsNumber(sitemapUrls[j].rating) /\ IsNumber(sitemapUrls[j].reviews)

\* A scan has rejected a record whose page could not be fetched, with the
\* sentinel 0 for both values, and approved another.
C13_Witness ==
  \E j, k \in 1 .. Len(sitemapUrls) :
    /\ sitemapUrls[j].qualityStatus = "rejected"
    /\ pages[sitemapUrls[j].url] = ErrorPage
    /\ sitemapUrls[j].rating = Num(0) /\ sitemapUrls[j].reviews = Num(0)
    /\ sitemapUrls[k].qualityStatus = "approved"

\* An endpoint sends the answer of the given kind.
Sends(op) == answer = NoAnswer /\ answer'.op = op
\* The counts over the whole corpus.
CorpusStats(coll) ==
  [totalUrls |-> Len(coll),
   pending |-> Cardinality({ j \in 1 .. Len(coll) : ~coll[j].copied }),
   copied |-> Cardinality({ j \in 1 .. Len(coll) : coll[j].copied })]
CorpusStats014(coll) ==
  [totalUrls |-> Len(coll),
   unchecked |-> Cardinality({ j \in 1 .. Len(coll) : coll[j].qualityStatus = "unchecked" }),
   pending |-> Cardinality({ j \in 1 .. Len(coll) :
                               coll[j].qualityStatus = "approved" /\ ~coll[j].copied }),
   rejected |-> Cardinality({ j \in 1 .. Len(coll) : coll[j].qualityStatus = "rejected" }),
   copied |-> Cardinality({ j \in 1 .. Len(coll) : coll[j].copied })]

\* C14 (global stats are filter-independent): whatever the status, search,
\* parentSitemap, domain, page and page-size of the request, the stats of a
\* list answer are the counts over the whole corpus, in each of the three
\* backends.
C14_StatsIgnoreFilters ==
  [][/\ Sends("list") => answer'.body.stats = CorpusStats(urls)
     /\ Sends("list014") => answer'.body.stats = CorpusStats014(sitemapUrls)
     /\ Sends("list013") => answer'.body.stats = CorpusStats(urls)]_vars

\* The list request for the pending view under the filters of q.
AsList(q, pg, l) ==
  [domain |-> q.domain, parentSitemap |-> q.parentSitemap, status |-> "pending",
   search |-> q.search, page |-> pg, limit |-> l]
AsList014(q, pg, l) ==
  [domain |-> q.domain, status |-> "pending", search |-> q.search, page |-> pg, limit |-> l]
\* The data of the pages pg, pg + 1, ... last of that view, one after another.
RECURSIVE ListedFrom(_, _, _, _, _), ListedFrom014(_, _, _, _, _)
ListedFrom(coll, q, pg, last, l) ==
  IF pg > last THEN << >>
  ELSE ListAnswer(coll, AsList(q, pg, l)).body.data \o ListedFrom(coll, q, pg + 1, last, l)
ListedFrom014(coll, q, pg, last, l) ==
  IF pg > last THEN << >>
  ELSE ListAnswer014(coll, AsList014(q, pg, l)).body.data
         \o ListedFrom014(coll, q, pg + 1, last, l)
PageSizes == {1, 2}

\* C15 (pending text and list agree): a pending answer without a limit holds
\* exactly the URLs that the list answers of the pending view under the same
\* search, parentSitemap and domain hold over all their pages, in the same
\* order, so its count is that view's pagination.total; in both backends.
C15_PendingMatchesList ==
  [][/\ (Sends("pending") /\ answer'.req.limit = 0) =>
          \A l \in PageSizes :
            LET first == ListAnswer(urls, AsList(answer'.req, 1, l)).body.pagination
            IN /\ answer'.body.urls = ListedFrom(urls, answer'.req, 1, first.pages, l)
               /\ answer'.body.count = first.total
     /\ (Sends("pending014") /\ answer'.req.limit = 0) =>
          \A l \in PageSizes :
            LET first == ListAnswer014(sitemapUrls, AsList014(answer'.req, 1, l)).body.pagination
            IN /\ answer'.body.urls = ListedFrom014(sitemapUrls, answer'.req, 1, first.pages, l)
               /\ answer'.body.count = first.total]_vars

\* A pending answer without a limit, under a search, lists two URLs that were stored in the other order, while a copied record
\* is stored.
C15_Witness ==
  /\ answer.op = "pending"
  /\ answer.req.limit = 0 /\ answer.req.search # << >>
  /\ answer.body.count = 2
  /\ answer.body.urls # UrlList(SelectSeq(urls, LAMBDA d : d.url \in Elems(answer.body.urls)))
  /\ \E j \in 1 .. Len(urls) : urls[j].copied

\* The pending request under the filters of a mark-copied body.
AsPending(b) ==
  [domain |-> b.domain, parentSitemap |-> b.parentSitemap, search |-> b.search, limit |-> 0]
AsPending014(b) == [domain |-> b.domain, search |-> b.search, limit |-> 0]
\* The collection with copied set on the records of the given URLs, and
\* nothing else changed.
CopiedExactly(coll, selected) ==
  [j \in 1 .. Len(coll) |->
     IF coll[j].url \in selected THEN [coll[j] EXCEPT !.copied = TRUE] ELSE coll[j]]

\* C16 (mark-copied by filter touches exactly the visible pending set): a
\* mark-copied request with allPending and filters F sets copied on exactly
\* the records whose URLs the pending answer, and the pending view of the
\* list, show under F in that store state; every other record, every other
\* field and the sitemap records stay as they are; the pending answer under
\* F is empty afterwards.  In both backends.
C16_MarkCopiedByFilter ==
  [][/\ (Sends("mark") /\ answer'.req.allPending) =>
          LET q == AsPending(answer'.req)
              shown == PendingAnswer(urls, q).body.urls
          IN /\ shown = ListedFrom(urls, q, 1, Len(urls), 1)
             /\ urls' = CopiedExactly(urls, Elems(shown))
             /\ files' = files
             /\ PendingAnswer(urls', q).body.count = 0
     /\ (Sends("mark014") /\ answer'.req.allPending) =>
          LET q == AsPending014(answer'.req)
              shown == PendingAnswer014(sitemapUrls, q).body.urls
          IN /\ shown = ListedFrom014(sitemapUrls, q, 1, Len(sitemapUrls), 1)
             /\ sitemapUrls' = CopiedExactly(sitemapUrls, Elems(shown))
             /\ PendingAnswer014(sitemapUrls', q).body.count = 0]_vars

\* A mark-copied request with allPending and a search has been served; a
\* record that matches the search is copied, one that does not is pending.
C16_Witness ==
  /\ answer.op = "mark" /\ answer.status = 200
  /\ answer.req.allPending /\ answer.req.search = <<"R">>
  /\ \E j, k \in 1 .. Len(urls) :
       /\ urls[j].copied /\ RegexMatches(urls[j].url, answer.req.search)
       /\ ~urls[k].copied /\ ~RegexMatches(urls[k].url, answer.req.search)

\* The backup handler ends its walk in this step.
EndsBackup == backup.pc = "urls" /\ backup'.pc = "done"
\* The array holds the JSON text of every record of the collection exactly
\* once and nothing else.
HoldsEach(array, coll) ==
  /\ Len(array) = Len(coll)
  /\ \A j \in 1 .. Len(coll) :
       Cardinality({ k \in 1 .. Len(array) : array[k] = Stringify(coll[j]) }) = 1

\* C17: when the export walk ends, no write having happened during it, the
\* stream written is one well-formed JSON object with the arrays sitemaps and
\* urls in that order; sitemaps holds every sitemap record exactly once and
\* urls holds every URL record exactly once.
C17_ExportCompleteness ==
  [][EndsBackup =>
       /\ WellFormed(backup'.out)
       /\ HoldsEach(ParseSitemaps(backup'.out), files)
       /\ HoldsEach(ParseUrls(backup'.out), urls)]_vars
\* An export of at least two records of each kind has ended.
C17_Witness ==
  /\ backup.pc = "done"
  /\ Len(ParseSitemaps(backup.out)) >= 2
  /\ Len(ParseUrls(backup.out)) >= 2

\* The restore handler starts, and answers, in this step.
BeginsRestore == restore.pc \in {"idle", "done"} /\ restore'.pc = "sitemaps"
EndsRestore == restore.pc = "urls" /\ restore'.pc = "done"
UrlSet(array) == { array[k].url : k \in 1 .. Len(array) }

\* C18: restoring the output of an export, without clearing first, into an
\* empty store leaves a store whose URL records have exactly the url values of
\* the exported corpus and whose sitemap records have exactly the url values
\* of the exported corpus, and the two counts reported are the numbers of
\* records of that corpus.
C18_RoundTripBackup ==
  [][/\ EndsBackup =>
          /\ UrlSet(ParseUrls(backup'.out)) = UrlsOf(urls)
          /\ UrlSet(ParseSitemaps(backup'.out)) = UrlsOf(files)
          /\ Len(ParseUrls(backup'.out)) = Len(urls)
          /\ Len(ParseSitemaps(backup'.out)) = Len(files)
     /\ scenario = "roundtrip" /\ BeginsRestore =>
          /\ urls = << >> /\ files = << >>
          /\ restore'.file = backup.out
          /\ restore'.clearBefore # "true"
     /\ scenario = "roundtrip" /\ EndsRestore =>
          /\ restore.file = backup.out
          /\ UrlsOf(urls') = UrlSet(ParseUrls(backup.out))
          /\ UrlsOf(files') = UrlSet(ParseSitemaps(backup.out))
          /\ restore'.status = 200
          /\ restore'.stats.urls = Len(ParseUrls(backup.out))
          /\ restore'.stats.sitemaps = Len(ParseSitemaps(backup.out))]_vars
\* A restore of an export of at least two records of each kind has answered.
C18_Witness ==
  /\ scenario = "roundtrip"
  /\ restore.pc = "done" /\ restore.status = 200
  /\ restore.file = backup.out
  /\ restore.stats.urls >= 2 /\ restore.stats.sitemaps >= 2

\* The restore handler puts one batch through handleInsert in this step.
InsertsSitemapBatch ==
  restore.pc = "sitemaps" /\ restore'.pc = "sitemaps" /\ restore'.pos > restore.pos
InsertsUrlBatch ==
  restore.pc = "urls" /\ restore'.pc = "urls" /\ restore'.pos > restore.pos
IsPrefix(s, t) == Len(s) <= Len(t) /\ \A j \in 1 .. Len(s) : t[j] = s[j]
\* Every record of the batch array[from + 1 .. to] is stored afterwards, what
\* was stored stays, no url is stored twice, and the count grows by the
\* number of records the collection gained.
BatchIsolated(array, from, to, coll, collAfter, count, countAfter) ==
  /\ \A k \in from + 1 .. to : array[k].url \in UrlsOf(collAfter)
  /\ IsPrefix(coll, collAfter)
  /\ Cardinality(UrlsOf(collAfter)) = Len(collAfter)
  /\ countAfter - count = Len(collAfter) - Len(coll)

\* C19: in a restore, the duplicate-key failures of one insert batch keep
\* neither the other records of that batch from being inserted nor any later
\* batch, of sitemaps or of urls, from being processed, and the sitemap and
\* URL counts reported are the numbers of records inserted.
C19_RestoreBatchIsolation ==
  [][/\ InsertsSitemapBatch =>
          /\ BatchIsolated(ParseSitemaps(restore.file), restore.pos, restore'.pos,
                           files, files', restore.stats.sitemaps, restore'.stats.sitemaps)
          /\ restore'.pos - restore.pos <= SITEMAP_BATCH_SIZE
     /\ InsertsUrlBatch =>
          /\ BatchIsolated(ParseUrls(restore.file), restore.pos, restore'.pos,
                           urls, urls', restore.stats.urls, restore'.stats.urls)
          /\ restore'.pos - restore.pos <= URL_BATCH_SIZE
     /\ EndsRestore =>
          /\ restore'.status = 200
          /\ UrlSet(ParseSitemaps(restore.file)) \subseteq UrlsOf(files')
          /\ UrlSet(ParseUrls(restore.file)) \subseteq UrlsOf(urls')]_vars
\* A restore has answered whose first sitemap batch and whose URL batch had
\* duplicates: the records after them are stored and the counts are below
\* the numbers of records in the file.
C19_Witness ==
  /\ restore.pc = "done" /\ restore.status = 200
  /\ Len(ParseSitemaps(restore.file)) > SITEMAP_BATCH_SIZE
  /\ 0 < restore.stats.sitemaps /\ restore.stats.sitemaps < Len(ParseSitemaps(restore.file))
  /\ 0 < restore.stats.urls /\ restore.stats.urls < Len(ParseUrls(restore.file))
  /\ HasUrl(files, SITEMAP_BATCH_SIZE - 1)
  /\ HasUrl(urls, <<"n">>)

\* A delete request naming an id of no stored record is answered in this
\* step.
DeletesMissing ==
  \/ Sends("deleteUrl") /\ ~HasUrl(urls, answer'.req.params[2])
  \/ Sends("deleteSitemap") /\ ~HasUrl(files, answer'.req.params[2])

\* C20: a delete of a URL or a sitemap by an id that no record has, or has
\* any longer, leaves the store unchanged and is answered with an error, not
\* with a success.
C20_NotFoundOnDelete ==
  [][DeletesMissing => /\ urls' = urls /\ files' = files
                       /\ answer'.status >= 400]_vars

\* The store two imports leave when the first is served before the second begins.
ServedInTurn(first, second, coll) == InsertMany(InsertMany(<< >>, first).coll, second).coll
SitemapsToStore(p) == FileRecords(allFoundSitemaps[p], Origin(req[p].sitemapUrl))
\* A URL record without its copied flag.
Placed(d) == [url |-> d.url, parentSitemap |-> d.parentSitemap, sourceDomain |-> d.sourceDomain]
\* Imports p and q are the two that have been served, both with success.
BothServed(p, q) ==
  /\ p # q /\ Succeeded(p) /\ Succeeded(q)
  /\ \A o \in Procs \ {p, q} : pc[o] = "idle"
  /\ restore.served = 0

\* C21: two imports of overlapping sitemap trees, started on the empty store,
\* leave the same store whatever the interleaving of their steps: the URL
\* records, with their parentSitemap and sourceDomain, and the sitemap records
\* are those either sequential order leaves.
C21_ConcurrentImportsConverge ==
  \A p, q \in Procs :
    BothServed(p, q) =>
      /\ { Placed(urls[j]) : j \in 1 .. Len(urls) }
           = { Placed(d) : d \in Elems(ServedInTurn(newUrlsToStore[p], newUrlsToStore[q], urls)) }
      /\ Elems(files) = Elems(ServedInTurn(SitemapsToStore(p), SitemapsToStore(q), files))

\* No import and no restore is part of the way through its writes.
WritesComplete == (\A p \in Procs : pc[p] \in {"idle", "done"}) /\ TransferQuiet
Referenced == \A j \in 1 .. Len(urls) : HasUrl(files, urls[j].parentSitemap)

\* C22: in every store state that completed imports, restores, deletes and
\* clears reach, the parentSitemap of every URL record is the url of a stored
\* sitemap record.
C22_ParentSitemapStored == WritesComplete => Referenced

\* The uncopied URLs of a sitemap.
PendingOf(coll, parentSitemap) ==
  { coll[j].url : j \in { k \in 1 .. Len(coll) :
                            coll[k].parentSitemap = parentSitemap /\ ~coll[k].copied } }
\* The steps of a process-quality call: its selection, its early answer when
\* nothing is selected, and its answer after the checks.
SelectsForQuality == pq.pc \in {"idle", "done"} /\ pq'.pc = "await"
FindsNoneForQuality ==
  /\ pq.pc \in {"idle", "done"} /\ qualityCalls' = qualityCalls + 1
  /\ pq'.pc = "done" /\ pq'.status = 200
AnswersQuality == pq.pc = "await" /\ pq'.pc = "done"
Distinct(s) == \A j, k \in 1 .. Len(s) : s[j] = s[k] => j = k

\* C23: a process-quality call for a sitemap with limit N selects up to N of
\* its uncopied records; it marks every selected record copied, passing or
\* failing, and returns exactly the passing URLs, so count <= processedCount;
\* no step resets copied on a record, so a failing record is in no later
\* pending view or selection; and every call that finds uncopied records
\* leaves fewer of them, which drives the pending count of the sitemap to 0.
C23_QualityBatchPolicy ==
  [][/\ SelectsForQuality =>
          /\ Distinct(pq'.candidates)
          /\ Elems(pq'.candidates) \subseteq PendingOf(urls, pq'.parentSitemap)
          /\ Len(pq'.candidates) = Min(pq'.limit, Cardinality(PendingOf(urls, pq'.parentSitemap)))
          /\ Len(pq'.candidates) >= 1
     /\ FindsNoneForQuality =>
          /\ PendingOf(urls, pq'.parentSitemap) = {}
          /\ pq'.urls = << >> /\ pq'.processedCount = 0
          /\ urls' = urls
     /\ AnswersQuality =>
          /\ pq'.status = 200
          /\ pq'.processedCount = Len(pq.candidates)
          /\ Elems(pq'.urls) = { u \in Elems(pq.candidates) : checkUrlQuality(pages[u]) }
          /\ Len(pq'.urls) <= pq'.processedCount
          /\ \A j \in 1 .. Len(urls') :
               urls'[j].url \in Elems(pq.candidates) => urls'[j].copied
          /\ PendingOf(urls', pq.parentSitemap)
               = PendingOf(urls, pq.parentSitemap) \ Elems(pq.candidates)
          /\ Cardinality(PendingOf(urls', pq.parentSitemap))
               < Cardinality(PendingOf(urls, pq.parentSitemap))
     /\ \A j \in 1 .. Len(urls) : \A k \in 1 .. Len(urls') :
          (urls[j].url = urls'[k].url /\ urls[j].copied) => urls'[k].copied]_vars
\* A repeated call has answered that marked a failing record copied, with no
\* uncopied record of the sitemap left.
C23_Witness ==
  /\ qualityCalls > 1
  /\ pq.pc = "done" /\ pq.status = 200
  /\ Len(pq.urls) < pq.processedCount
  /\ \A j \in 1 .. Len(urls) : urls[j].url \in Elems(pq.candidates) => urls[j].copied
  /\ PendingOf(urls, pq.parentSitemap) = {}

\* The mark-copied request of a copy-all-pending workflow is served in this step.
MarksPending == copier.pc = "copied" /\ copier'.pc = "done"

\* C24: every record that the copy-all-pending workflow marks copied had its
\* URL in the text the workflow fetched, whatever ran between its two
\* requests.
C24_CopyAllDeliversMarked ==
  [][MarksPending =>
       \A j \in 1 .. Len(urls) :
         (~urls[j].copied /\ urls'[j].copied) => urls[j].url \in Elems(copier.text)]_vars

\* C25: the resolver of the quality-status backend fetches each sitemap file
\* at most once, so that on an index with an entry that points back to itself
\* or to an ancestor it makes no more calls than there are sitemap files, and
\* returns.
C25_ResolverCycleSafety014 ==
  /\ Distinct(extract.fetchLog)
  /\ Len(extract.stack) <= Cardinality(SitemapIds)

\* C26: the qualityStatus of a stored record changes only from unchecked to
\* approved or from unchecked to rejected, whatever import, scan batch,
\* mark-copied or list request is served, no record leaves the collection,
\* and a scan batch selects only records that are unchecked.
SelectsForScan == scan'.pc = "await" /\ scan.pc # "await"
StatusMoves(old, new) ==
  old.qualityStatus # new.qualityStatus =>
    old.qualityStatus = "unchecked" /\ new.qualityStatus \in {"approved", "rejected"}
C26_QualityStatusLifecycle ==
  [][/\ Len(sitemapUrls') >= Len(sitemapUrls)
     /\ \A j \in 1 .. Len(sitemapUrls) :
          /\ sitemapUrls'[j].url = sitemapUrls[j].url
          /\ StatusMoves(sitemapUrls[j], sitemapUrls'[j])
     /\ SelectsForScan =>
          \A u \in Elems(scan'.urlsToScan) :
            \E j \in 1 .. Len(sitemapUrls) :
              sitemapUrls[j].url = u /\ sitemapUrls[j].qualityStatus = "unchecked"]_vars
\* A batch is being scanned while the collection holds a record that was
\* approved and then marked copied and a record that was rejected.
C26_Witness ==
  /\ scan.pc = "await"
  /\ scan.urlsToScan # << >>
  /\ \E j, k \in 1 .. Len(sitemapUrls) :
       /\ sitemapUrls[j].qualityStatus = "approved" /\ sitemapUrls[j].copied
       /\ sitemapUrls[k].qualityStatus = "rejected"

\* C27: every candidate of an import is classified exactly once, whatever
\* the order in which the checks of a batch complete: between batches the
\* kept candidates and the two skip counters add up to the candidates of the
\* batches done, and after the loop to all of them, no candidate being kept
\* twice; the report of a successful import has totalUrlsFound = kept +
\* patternSkipped + qualitySkipped, skipped = patternSkipped + qualitySkipped
\* and newUrlsStored <= kept.
ClassifiedCount(p) ==
  Len(newUrlsToStore[p]) + patternSkippedCount[p] + qualitySkippedCount[p]
C27_ImportReportAccounting ==
  \A p \in Procs :
    /\ pc[p] \in {"batch", "await"} =>
         ClassifiedCount(p) = (IF i[p] < Len(candidates[p]) THEN i[p] ELSE Len(candidates[p]))
    /\ Filtered(p) =>
         /\ ClassifiedCount(p) = Len(candidates[p])
         /\ Cardinality(UrlsOf(newUrlsToStore[p])) = Len(newUrlsToStore[p])
         /\ UrlsOf(newUrlsToStore[p]) \subseteq Elems(candidates[p])
    /\ Succeeded(p) =>
         /\ resp[p].totalUrlsFound = Len(candidates[p])
         /\ resp[p].totalUrlsFound =
              Len(newUrlsToStore[p]) + resp[p].patternSkipped + resp[p].qualitySkipped
         /\ resp[p].skipped = resp[p].patternSkipped + resp[p].qualitySkipped
         /\ resp[p].newUrlsStored <= Len(newUrlsToStore[p])
\* A successful import has reported candidates skipped for the pattern and
\* for their quality, and fewer stored than kept.
C27_Witness ==
  \E p \in Procs :
    /\ Succeeded(p)
    /\ resp[p].patternSkipped > 0
    /\ resp[p].qualitySkipped > 0
    /\ resp[p].newUrlsStored < Len(newUrlsToStore[p])

\* C28: the inserts of an import, and every step of a restore whose
\* clearBefore is not 'true', leave each record that is already stored as it
\* is, in both collections: a stored URL keeps its copied flag, parentSitemap
\* and sourceDomain when the import finds it again or the backup holds it
\* with other values.
ImportWrites == \E p \in Procs : pc[p] \in {"insertUrls", "insertFiles"} /\ pc'[p] # pc[p]
RestoreKeeps == restore' # restore /\ restore'.pc # "idle" /\ restore'.clearBefore # "true"
C28_InsertsKeepExistingRecords ==
  [][(ImportWrites \/ RestoreKeeps) => IsPrefix(urls, urls') /\ IsPrefix(files, files')]_vars
\* A restore without clearBefore has ended whose backup held a stored and
\* copied URL with another parentSitemap and sourceDomain, once copied and
\* once not; the record is as it was.
C28_Witness ==
  /\ restore.pc = "done" /\ restore.status = 200 /\ restore.clearBefore # "true"
  /\ \E j \in 1 .. Len(urls) :
       /\ urls[j].url = <<"x">> /\ urls[j].copied
       /\ urls[j].parentSitemap = 1 /\ urls[j].sourceDomain = "https://a.example"
       /\ \E k \in 1 .. Len(ParseUrls(restore.file)) :
            LET doc == ParseUrls(restore.file)[k]
            IN doc.url = <<"x">> /\ ~doc.copied /\ doc.parentSitemap # 1
  /\ \E j \in 1 .. Len(urls) : urls[j].url = <<"n">>

\* C29: a restore removes stored records only when clearBefore is exactly
\* 'true', and then on its first step, which leaves both collections empty
\* before anything is inserted; with any other clearBefore its first step
\* leaves the store as it is; while sitemap batches are inserted no URL
\* record has been inserted, and a URL batch is inserted only when every
\* sitemap record of the file is stored; a request without a file is answered
\* 400 with both collections unchanged, and only such a request is.
RestoreStep == restore' # restore /\ restore'.pc # "idle"
Removes == ~IsPrefix(urls, urls') \/ ~IsPrefix(files, files')
C29_RestoreWipeGuardAndOrder ==
  [][RestoreStep =>
       /\ Removes => BeginsRestore /\ restore'.clearBefore = "true"
       /\ BeginsRestore =>
            IF restore'.clearBefore = "true"
              THEN urls' = << >> /\ files' = << >>
              ELSE urls' = urls /\ files' = files
       /\ InsertsSitemapBatch => urls' = urls /\ restore.stats.urls = 0
       /\ (urls' # urls /\ ~BeginsRestore) =>
            /\ restore.pc = "urls" /\ files' = files
            /\ \A k \in 1 .. Len(ParseSitemaps(restore.file)) :
                 HasUrl(files, ParseSitemaps(restore.file)[k].url)
       /\ restore'.file = NoFile =>
            restore'.pc = "done" /\ restore'.status = 400 /\ urls' = urls /\ files' = files
       /\ restore'.status = 400 => restore'.file = NoFile]_vars
\* A restore with clearBefore 'true' has ended after an import had stored
\* URL records: the store holds the records of the file and nothing else.
C29_Witness ==
  /\ restore.pc = "done" /\ restore.status = 200 /\ restore.clearBefore = "true"
  /\ pc[1] = "done" /\ resp[1].newUrlsStored > 0
  /\ Len(urls) = 2 /\ \A j \in 1 .. Len(urls) : urls[j].parentSitemap = 2
  /\ Len(files) = SITEMAP_BATCH_SIZE

\* C30: at every step of a resolution started by the import handler, and
\* afterwards, every parent the url map holds is in the sitemap set, the
\* root's own URLs included; so every URL record the import builds names a
\* parentSitemap among the sitemap records the same import submits, and once
\* they are submitted a sitemap record with that url is stored.
ParentsOf(m) == { m[j].val : j \in 1 .. Len(m) }
SubmitsSitemaps(p) == pc[p] = "insertFiles" /\ pc'[p] = "done"
C30_ParentsAreFoundSitemaps ==
  /\ [](\A p \in Procs :
          /\ ParentsOf(allFoundUrlMap[p]) \subseteq Elems(allFoundSitemaps[p])
          /\ pc[p] # "idle" /\ ~(pc[p] = "done" /\ resp[p].status = 400)
               => SetHas(allFoundSitemaps[p], req[p].sitemapUrl)
          /\ pc[p] \in {"batch", "await", "insertUrls", "insertFiles"} =>
               \A k \in 1 .. Len(newUrlsToStore[p]) :
                 /\ newUrlsToStore[p][k].parentSitemap =
                      MapGet(allFoundUrlMap[p], newUrlsToStore[p][k].url)
                 /\ HasUrl(FileRecords(allFoundSitemaps[p], Origin(req[p].sitemapUrl)),
                           newUrlsToStore[p][k].parentSitemap))
  /\ [][\A p \in Procs :
          SubmitsSitemaps(p) =>
            \A k \in 1 .. Len(newUrlsToStore[p]) :
              HasUrl(files', newUrlsToStore[p][k].parentSitemap)]_vars
\* An import whose root is a url set has built URL records with the root as
\* their parent, and another has built records under a child of its root.
C30_Witness ==
  /\ pc[1] = "done" /\ resp[1].status = 200
  /\ IsUrlset(req[1].sitemapUrl)
  /\ \E k \in 1 .. Len(newUrlsToStore[1]) :
       newUrlsToStore[1][k].parentSitemap = req[1].sitemapUrl
  /\ pc[2] = "insertFiles"
  /\ \E k \in 1 .. Len(newUrlsToStore[2]) :
       newUrlsToStore[2][k].parentSitemap # req[2].sitemapUrl

====
